---------------------------- MODULE Spec2Model ----------------------------
(***************************************************************************)
(* Model of the transcript-retrieval core of the YouTube summariser        *)
(* (src/utils/youtube.js, current revision: lines 348-955).                *)
(*                                                                         *)
(* Strings whose content the code inspects (reference strings, language    *)
(* codes, caption text) are sequences of one-character strings.  Strings   *)
(* that the code only passes along (error messages, channel names) are     *)
(* plain TLA+ strings.  JavaScript null is the sequence Null.              *)
(***************************************************************************)
EXTENDS Integers, Sequences, FiniteSets, TLC

\* ------------------------------------------------------------------------
\* Bounds of the model
\* ------------------------------------------------------------------------

\* largest number of white-space characters put around a caption text
MaxPad == 1

\* largest number of tracks in a catalog handed to the track selection
MaxTracks == 2

\* largest number of elements in a track list handed to parseTracksXml
MaxFrags == 2

\* largest number of events in a json3 body
MaxEvents == 3

\* largest number of <text> elements handed to parseTranscriptXml
MaxElems == 3

\* largest number of tokens in a string handed to decodeHtmlEntities
MaxTokens == 3

\* largest number of jobs created
MaxJobs == 1

\* a client sends one more process-job request while fewer than this many
\* are under way, were served, or can still be sent by create-job
MaxRuns == 3

\* largest number of job-status requests the page has under way at once
MaxInflight == 2

\* ------------------------------------------------------------------------
\* Character strings
\* ------------------------------------------------------------------------

Null == <<"NULL">>

Rep(c, n) == [i \in 1..n |-> c]

WhiteSpace == {" ", "\n", "\t"}

RECURSIVE TrimStart(_)
TrimStart(s) ==
    IF s # <<>> /\ Head(s) \in WhiteSpace THEN TrimStart(Tail(s)) ELSE s

RECURSIVE TrimEnd(_)
TrimEnd(s) ==
    IF s # <<>> /\ s[Len(s)] \in WhiteSpace
    THEN TrimEnd(SubSeq(s, 1, Len(s) - 1))
    ELSE s

\* String.prototype.trim
Trim(s) == TrimEnd(TrimStart(s))

\* Array.prototype.join(' ')
RECURSIVE JoinSpace(_)
JoinSpace(parts) ==
    IF parts = <<>> THEN <<>>
    ELSE IF Len(parts) = 1 THEN parts[1]
    ELSE parts[1] \o <<" ">> \o JoinSpace(Tail(parts))

\* the literal lit occurs in s at position i
MatchAt(s, i, lit) ==
    /\ i >= 1
    /\ i + Len(lit) - 1 <= Len(s)
    /\ SubSeq(s, i, i + Len(lit) - 1) = lit

\* String.prototype.startsWith
StartsWith(s, lit) == MatchAt(s, 1, lit)

\* String.prototype.includes
Includes(s, lit) == \E i \in 1..(Len(s) + 1) : MatchAt(s, i, lit)

UpperAlpha == <<"A", "B", "C", "D", "E", "F", "G", "H", "I", "J", "K", "L", "M",
                "N", "O", "P", "Q", "R", "S", "T", "U", "V", "W", "X", "Y", "Z">>
LowerAlpha == <<"a", "b", "c", "d", "e", "f", "g", "h", "i", "j", "k", "l", "m",
                "n", "o", "p", "q", "r", "s", "t", "u", "v", "w", "x", "y", "z">>

LowerChar(c) ==
    IF \E k \in 1..26 : UpperAlpha[k] = c
    THEN LowerAlpha[CHOOSE k \in 1..26 : UpperAlpha[k] = c]
    ELSE c

\* String.prototype.toLowerCase
ToLowerCase(s) == [i \in 1..Len(s) |-> LowerChar(s[i])]

\* ------------------------------------------------------------------------
\* extractVideoId (src/utils/youtube.js:354-388)
\* ------------------------------------------------------------------------

YT_WATCH_V == <<"y", "o", "u", "t", "u", "b", "e", ".", "c", "o", "m", "/", "w", "a", "t", "c", "h", "?", "v", "=">>
YT_BE == <<"y", "o", "u", "t", "u", ".", "b", "e", "/">>
YT_EMBED == <<"y", "o", "u", "t", "u", "b", "e", ".", "c", "o", "m", "/", "e", "m", "b", "e", "d", "/">>
YT_WATCH == <<"y", "o", "u", "t", "u", "b", "e", ".", "c", "o", "m", "/", "w", "a", "t", "c", "h">>
YT_SHORTS == <<"y", "o", "u", "t", "u", "b", "e", ".", "c", "o", "m", "/", "s", "h", "o", "r", "t", "s", "/">>
YT_HOST == <<"y", "o", "u", "t", "u", "b", "e", ".", "c", "o", "m">>
HTTPS == <<"h", "t", "t", "p", "s", ":", "/", "/">>
HTTP == <<"h", "t", "t", "p", ":", "/", "/">>

\* the characters excluded by the capturing group [^?&/#]+
IdDelims == {"?", "&", "/", "#"}

\* the longest run of characters outside stop that starts at position i
RECURSIVE RunFrom(_, _, _)
RunFrom(s, i, stop) ==
    IF i > Len(s) \/ s[i] \in stop THEN <<>>
    ELSE <<s[i]>> \o RunFrom(s, i + 1, stop)

\* the positions where <literal>([^?&/#]+) matches, for a set of literals
LiteralHits(s, lits) ==
    {i \in 1..Len(s) : \E lit \in lits :
        MatchAt(s, i, lit) /\ RunFrom(s, i + Len(lit), IdDelims) # <<>>}

Min(S) == CHOOSE x \in S : \A y \in S : x <= y

\* group 1 of the leftmost match of <one of lits>([^?&/#]+), or Null
LiteralCapture(s, lits) ==
    IF LiteralHits(s, lits) = {} THEN Null
    ELSE LET i == Min(LiteralHits(s, lits))
             lit == CHOOSE l \in lits : MatchAt(s, i, l)
         IN RunFrom(s, i + Len(lit), IdDelims)

\* /youtube\.com\/watch.*?[?&]v=([^?&/#]+)/ : the positions j of the [?&]
\* that complete a match starting at position i
WatchParamHits(s, i) ==
    {j \in (i + Len(YT_WATCH))..Len(s) :
        /\ s[j] \in {"?", "&"}
        /\ MatchAt(s, j + 1, <<"v", "=">>)
        /\ RunFrom(s, j + 3, IdDelims) # <<>>
        /\ \A k \in (i + Len(YT_WATCH))..(j - 1) : s[k] # "\n"}

WatchStarts(s) ==
    {i \in 1..Len(s) : MatchAt(s, i, YT_WATCH) /\ WatchParamHits(s, i) # {}}

WatchCapture(s) ==
    IF WatchStarts(s) = {} THEN Null
    ELSE LET i == Min(WatchStarts(s))
             j == Min(WatchParamHits(s, i))
         IN RunFrom(s, j + 3, IdDelims)

\* new URL(url) for the reference strings of the model: an http(s) URL
\* without userinfo or port parses, a string without a scheme throws
UrlScheme(s) ==
    IF StartsWith(ToLowerCase(s), HTTPS) THEN HTTPS
    ELSE IF StartsWith(ToLowerCase(s), HTTP) THEN HTTP
    ELSE Null

UrlParses(s) ==
    /\ UrlScheme(s) # Null
    /\ RunFrom(s, Len(UrlScheme(s)) + 1, {"/", "?", "#"}) # <<>>

\* urlObj.hostname
UrlHostname(s) ==
    ToLowerCase(RunFrom(s, Len(UrlScheme(s)) + 1, {"/", "?", "#"}))

\* the positions where a query parameter named v starts
QueryVHits(s) ==
    {j \in 1..Len(s) :
        /\ s[j] \in {"?", "&"}
        /\ \E q \in 1..j : s[q] = "?" /\ \A k \in 1..q : s[k] # "#"
        /\ \A k \in 1..j : s[k] # "#"
        /\ MatchAt(s, j + 1, <<"v", "=">>)}

\* urlObj.searchParams.get('v') (null when absent)
SearchParamV(s) ==
    IF QueryVHits(s) = {} THEN Null
    ELSE RunFrom(s, Min(QueryVHits(s)) + 3, {"&", "#"})

extractVideoId(ref) ==
    IF ref = Null \/ ref = <<>> THEN Null
    ELSE IF LiteralCapture(ref, {YT_WATCH_V, YT_BE, YT_EMBED}) # Null
         THEN LiteralCapture(ref, {YT_WATCH_V, YT_BE, YT_EMBED})
    ELSE IF WatchCapture(ref) # Null THEN WatchCapture(ref)
    ELSE IF LiteralCapture(ref, {YT_SHORTS}) # Null
         THEN LiteralCapture(ref, {YT_SHORTS})
    ELSE IF /\ UrlParses(ref)
            /\ Includes(UrlHostname(ref), YT_HOST)
            /\ SearchParamV(ref) # Null
            /\ SearchParamV(ref) # <<>>
         THEN SearchParamV(ref)
    ELSE Null

WWW == <<"w", "w", "w", ".">>
ID_ab == <<"a", "b">>
ID_cd == <<"c", "d">>

\* the reference strings handed to getVideoTranscript
Refs ==
    { <<>>,
      Null,
      <<"h", "e", "l", "l", "o">>,
      HTTPS \o WWW \o YT_WATCH_V \o ID_ab,
      HTTPS \o YT_BE \o ID_cd,
      HTTPS \o WWW \o YT_WATCH \o <<"?", "t", "=", "1", "&", "v", "=">> \o ID_ab,
      HTTPS \o WWW \o YT_WATCH_V,
      HTTPS \o <<"m", ".">> \o YT_HOST \o <<"/", "?", "v", "=">> \o ID_cd,
      HTTPS \o <<"e", "x", ".", "c", "o", "m", "/", "?", "v", "=">> \o ID_ab }


\* ------------------------------------------------------------------------
\* Literals of the parsers
\* ------------------------------------------------------------------------

AMP_ENT == <<"&", "a", "m", "p", ";">>
LT_ENT == <<"&", "l", "t", ";">>
GT_ENT == <<"&", "g", "t", ";">>
QUOT_ENT == <<"&", "q", "u", "o", "t", ";">>
NUM39_ENT == <<"&", "#", "3", "9", ";">>
APOS_ENT == <<"&", "a", "p", "o", "s", ";">>
TEXT_OPEN == <<"<", "t", "e", "x", "t">>
TEXT_CLOSE == <<"<", "/", "t", "e", "x", "t", ">">>
TRACK_OPEN == <<"<", "t", "r", "a", "c", "k">>
LANG_CODE_ATTR == <<"l", "a", "n", "g", "_", "c", "o", "d", "e", "=">> \o <<"\"">>
NAME_ATTR == <<"n", "a", "m", "e", "=">> \o <<"\"">>
KIND_ATTR == <<"k", "i", "n", "d", "=">> \o <<"\"">>
LANG_ATTR == <<"l", "a", "n", "g", "=">> \o <<"\"">>

\* ------------------------------------------------------------------------
\* decodeHtmlEntities (src/utils/youtube.js:444-467)
\* ------------------------------------------------------------------------

\* String.prototype.replace(new RegExp(pat, 'g'), rep) for a literal pat:
\* left to right, the replacement text is not scanned again
RECURSIVE ReplaceAll(_, _, _)
ReplaceAll(s, pat, rep) ==
    IF s = <<>> THEN <<>>
    ELSE IF MatchAt(s, 1, pat)
         THEN rep \o ReplaceAll(SubSeq(s, Len(pat) + 1, Len(s)), pat, rep)
    ELSE <<Head(s)>> \o ReplaceAll(Tail(s), pat, rep)

\* the named entities in the insertion order of the entities object
Entities ==
    << <<AMP_ENT, <<"&">>>>, <<LT_ENT, <<"<">>>>, <<GT_ENT, <<">">>>>,
       <<QUOT_ENT, <<"\"">>>>, <<NUM39_ENT, <<"'">>>>, <<APOS_ENT, <<"'">>>> >>

RECURSIVE ReplaceNamed(_, _)
ReplaceNamed(s, k) ==
    IF k > Len(Entities) THEN s
    ELSE ReplaceNamed(ReplaceAll(s, Entities[k][1], Entities[k][2]), k + 1)

Digits == <<"0", "1", "2", "3", "4", "5", "6", "7", "8", "9">>

IsDigit(c) == \E d \in 1..10 : Digits[d] = c

DigitValue(c) == (CHOOSE d \in 1..10 : Digits[d] = c) - 1

RECURSIVE DigitRun(_, _)
DigitRun(s, i) ==
    IF i > Len(s) \/ ~IsDigit(s[i]) THEN <<>>
    ELSE <<s[i]>> \o DigitRun(s, i + 1)

RECURSIVE DecValue(_, _)
DecValue(digs, acc) ==
    IF digs = <<>> THEN acc
    ELSE DecValue(Tail(digs), (acc * 10 + DigitValue(Head(digs))) % 65536)

\* String.fromCharCode for the code units that occur in the model; any
\* other code unit is the character OtherChar
OtherChar == "?"

FromCharCode(n) ==
    CASE n = 32 -> " "
      [] n = 34 -> "\""
      [] n = 38 -> "&"
      [] n = 39 -> "'"
      [] n = 60 -> "<"
      [] n = 62 -> ">"
      [] n = 65 -> "A"
      [] n = 97 -> "a"
      [] OTHER -> OtherChar

\* replace(/&#(\d+);/g, (_, dec) => String.fromCharCode(dec))
RECURSIVE ReplaceNumeric(_)
ReplaceNumeric(s) ==
    IF s = <<>> THEN <<>>
    ELSE IF /\ MatchAt(s, 1, <<"&", "#">>)
            /\ DigitRun(s, 3) # <<>>
            /\ MatchAt(s, 3 + Len(DigitRun(s, 3)), <<";">>)
         THEN <<FromCharCode(DecValue(DigitRun(s, 3), 0))>>
              \o ReplaceNumeric(SubSeq(s, 4 + Len(DigitRun(s, 3)), Len(s)))
    ELSE <<Head(s)>> \o ReplaceNumeric(Tail(s))

\* mutant: a numeric reference may have no digit, /&#(\d*);/g
decodeHtmlEntities_Loose(text) ==
    IF text = Null \/ text = <<>> THEN <<>>
    ELSE ReplaceAll(ReplaceNumeric(ReplaceNamed(text, 1)),
                    <<"&", "#", ";">>, <<FromCharCode(0)>>)

decodeHtmlEntities(text) ==
    IF text = Null \/ text = <<>> THEN <<>>
    ELSE ReplaceNumeric(ReplaceNamed(text, 1))

\* ------------------------------------------------------------------------
\* parseTranscriptXml (src/utils/youtube.js:866-883)
\* ------------------------------------------------------------------------

\* the first position at or after i that holds character c (0 when none)
RECURSIVE IndexOfChar(_, _, _)
IndexOfChar(s, c, i) ==
    IF i > Len(s) THEN 0
    ELSE IF s[i] = c THEN i
    ELSE IndexOfChar(s, c, i + 1)

\* the first position at or after i where lit occurs (0 when none)
RECURSIVE IndexOf(_, _, _)
IndexOf(s, lit, i) ==
    IF i + Len(lit) - 1 > Len(s) THEN 0
    ELSE IF MatchAt(s, i, lit) THEN i
    ELSE IndexOf(s, lit, i + 1)

\* /<text[^>]*>(.*?)<\/text>/ tried at position i: <<start of group 1,
\* position of the closing tag>>, or <<0, 0>> when there is no match at i
TextMatchAt(s, i) ==
    IF ~MatchAt(s, i, TEXT_OPEN) THEN <<0, 0>>
    ELSE LET g == IndexOfChar(s, ">", i + Len(TEXT_OPEN))
             e == IF g = 0 THEN 0 ELSE IndexOf(s, TEXT_CLOSE, g + 1)
         IN IF g = 0 \/ e = 0 THEN <<0, 0>>
            ELSE IF \E k \in (g + 1)..(e - 1) : s[k] = "\n" THEN <<0, 0>>
            ELSE <<g + 1, e>>

\* the decoded, non-blank contents of the <text> elements from position i on
RECURSIVE TextsFrom(_, _)
TextsFrom(s, i) ==
    IF i > Len(s) THEN <<>>
    ELSE LET m == TextMatchAt(s, i)
         IN IF m = <<0, 0>> THEN TextsFrom(s, i + 1)
            ELSE LET text == decodeHtmlEntities(SubSeq(s, m[1], m[2] - 1))
                 IN (IF Trim(text) # <<>> THEN <<text>> ELSE <<>>)
                    \o TextsFrom(s, m[2] + Len(TEXT_CLOSE))

parseTranscriptXml(xml) == JoinSpace(TextsFrom(xml, 1))

\* ------------------------------------------------------------------------
\* json3 body of getTranscriptFromTimedTextAPI (src/utils/youtube.js:542-550)
\* An event is the sequence of the utf8 values of its segs; a seg without
\* utf8 is Null, an event without segs is the empty sequence.
\* ------------------------------------------------------------------------

\* mutant: the events without segs are kept
FilterEvents_All(events) == events

\* events.filter(event => event.segs && event.segs.length > 0)
FilterEvents(events) == SelectSeq(events, LAMBDA ev : ev # <<>>)

\* event.segs.map(seg => seg.utf8 || '').join(' ')
EventText(ev) ==
    JoinSpace([k \in 1..Len(ev) |-> IF ev[k] = Null THEN <<>> ELSE ev[k]])

Json3Transcript(events) ==
    LET kept == FilterEvents(events)
    IN JoinSpace([k \in 1..Len(kept) |-> EventText(kept[k])])

\* ------------------------------------------------------------------------
\* parseTracksXml (src/utils/youtube.js:822-861)
\* A track is <<lang_code, name, kind>>.
\* ------------------------------------------------------------------------

\* (attrs.match(/<attr>="([^"]*)"/) || [])[1], Null when there is no match
RECURSIVE AttrValueFrom(_, _, _)
AttrValueFrom(attrs, lit, i) ==
    IF i > Len(attrs) THEN Null
    ELSE IF /\ MatchAt(attrs, i, lit)
            /\ IndexOfChar(attrs, "\"", i + Len(lit)) # 0
         THEN SubSeq(attrs, i + Len(lit),
                     IndexOfChar(attrs, "\"", i + Len(lit)) - 1)
    ELSE AttrValueFrom(attrs, lit, i + 1)

AttrValue(attrs, lit) == AttrValueFrom(attrs, lit, 1)

OrEmpty(v) == IF v = Null THEN <<>> ELSE v

\* the loop over /<track([^>]*)>/g
RECURSIVE TracksFrom(_, _)
TracksFrom(xml, i) ==
    IF i > Len(xml) THEN <<>>
    ELSE IF MatchAt(xml, i, TRACK_OPEN)
            /\ IndexOfChar(xml, ">", i + Len(TRACK_OPEN)) # 0
         THEN LET g == IndexOfChar(xml, ">", i + Len(TRACK_OPEN))
                  attrs == SubSeq(xml, i + Len(TRACK_OPEN), g - 1)
                  langCode == AttrValue(attrs, LANG_CODE_ATTR)
                  name == OrEmpty(AttrValue(attrs, NAME_ATTR))
                  kind == OrEmpty(AttrValue(attrs, KIND_ATTR))
              IN (IF langCode # Null /\ langCode # <<>>
                  THEN << <<langCode, name, kind>> >> ELSE <<>>)
                 \o TracksFrom(xml, g + 1)
    ELSE TracksFrom(xml, i + 1)

\* /lang="([^"]*)"[^>]*name="([^"]*)"/ tried at position i: <<end of
\* group 1, start of group 2, end of group 2>> or <<0, 0, 0>>.  [^>]* is
\* greedy, so the last name="..." before the next > is the one matched.
AltNameHits(xml, q, stop) ==
    {n \in (q + 1)..stop :
        /\ MatchAt(xml, n, NAME_ATTR)
        /\ IndexOfChar(xml, "\"", n + Len(NAME_ATTR)) # 0
        /\ \A k \in (q + 1)..(n - 1) : xml[k] # ">"}

Max(S) == CHOOSE x \in S : \A y \in S : x >= y

AltMatchAt(xml, i) ==
    IF ~MatchAt(xml, i, LANG_ATTR) THEN <<0, 0, 0>>
    ELSE LET q == IndexOfChar(xml, "\"", i + Len(LANG_ATTR))
         IN IF q = 0 \/ AltNameHits(xml, q, Len(xml)) = {} THEN <<0, 0, 0>>
            ELSE LET n == Max(AltNameHits(xml, q, Len(xml)))
                 IN <<q - 1, n + Len(NAME_ATTR),
                      IndexOfChar(xml, "\"", n + Len(NAME_ATTR)) - 1>>

\* the loop over altTrackRegex
RECURSIVE AltTracksFrom(_, _)
AltTracksFrom(xml, i) ==
    IF i > Len(xml) THEN <<>>
    ELSE LET m == AltMatchAt(xml, i)
         IN IF m = <<0, 0, 0>> THEN AltTracksFrom(xml, i + 1)
            ELSE LET langCode == SubSeq(xml, i + Len(LANG_ATTR), m[1])
                     name == SubSeq(xml, m[2], m[3])
                 IN (IF langCode # <<>>
                     THEN << <<langCode, name, <<>>>> >> ELSE <<>>)
                    \o AltTracksFrom(xml, m[3] + 2)

\* mutant: the alternative format is always consulted
parseTracksXml_Both(xml) == TracksFrom(xml, 1) \o AltTracksFrom(xml, 1)

parseTracksXml(xml) ==
    IF TracksFrom(xml, 1) # <<>> THEN TracksFrom(xml, 1)
    ELSE AltTracksFrom(xml, 1)

\* ------------------------------------------------------------------------
\* getVideoTitle (src/utils/youtube.js:393-439)
\* ------------------------------------------------------------------------

UNKNOWN_TITLE == <<"U", "n", "k", "n", "o", "w", "n", " ", "T", "i", "t", "l", "e">>
TITLE_OPEN == <<"<", "t", "i", "t", "l", "e", ">">>
TITLE_CLOSE == <<"<", "/", "t", "i", "t", "l", "e", ">">>
YOUTUBE_WORD == <<"Y", "o", "u", "T", "u", "b", "e">>
META_OPEN == <<"<", "m", "e", "t", "a">>
META_NAME == <<"n", "a", "m", "e", "=", "\"", "t", "i", "t", "l", "e", "\"">>
META_CONTENT == <<"c", "o", "n", "t", "e", "n", "t", "=", "\"">>

\* group 1 of /<title>([^<]*)<\/title>/ tried from position i, Null when
\* there is no match
RECURSIVE TitleTagFrom(_, _)
TitleTagFrom(html, i) ==
    IF i > Len(html) THEN Null
    ELSE IF /\ MatchAt(html, i, TITLE_OPEN)
            /\ MatchAt(html,
                       i + Len(TITLE_OPEN)
                         + Len(RunFrom(html, i + Len(TITLE_OPEN), {"<"})),
                       TITLE_CLOSE)
         THEN RunFrom(html, i + Len(TITLE_OPEN), {"<"})
    ELSE TitleTagFrom(html, i + 1)

\* title.replace(/\s*-\s*YouTube$/, '')
StripYouTubeSuffix(text) ==
    LET n == Len(text) - Len(YOUTUBE_WORD)
        beforeWord == TrimEnd(SubSeq(text, 1, n))
    IN IF /\ n >= 1
          /\ MatchAt(text, n + 1, YOUTUBE_WORD)
          /\ beforeWord # <<>>
          /\ beforeWord[Len(beforeWord)] = "-"
       THEN TrimEnd(SubSeq(beforeWord, 1, Len(beforeWord) - 1))
       ELSE text

\* the number of white-space characters from position i on
RECURSIVE SpaceRun(_, _)
SpaceRun(s, i) ==
    IF i > Len(s) \/ s[i] \notin WhiteSpace THEN 0
    ELSE 1 + SpaceRun(s, i + 1)

\* group 1 of /<meta\s+name="title"\s+content="([^"]+)"/, Null when there
\* is no match
RECURSIVE MetaTitleFrom(_, _)
MetaTitleFrom(html, i) ==
    IF i > Len(html) THEN Null
    ELSE LET a == i + Len(META_OPEN)
             b == a + SpaceRun(html, a)
             c == b + Len(META_NAME)
             d == c + SpaceRun(html, c)
             e == d + Len(META_CONTENT)
             v == RunFrom(html, e, {"\""})
         IN IF /\ MatchAt(html, i, META_OPEN)
               /\ b > a
               /\ MatchAt(html, b, META_NAME)
               /\ d > c
               /\ MatchAt(html, d, META_CONTENT)
               /\ v # <<>>
               /\ MatchAt(html, e + Len(v), <<"\"">>)
            THEN v
            ELSE MetaTitleFrom(html, i + 1)

\* lines 420-434: the title scraped from the watch page
PageTitle(html) ==
    IF TitleTagFrom(html, 1) # Null /\ TitleTagFrom(html, 1) # <<>>
    THEN decodeHtmlEntities(StripYouTubeSuffix(TitleTagFrom(html, 1)))
    ELSE IF MetaTitleFrom(html, 1) # Null
    THEN decodeHtmlEntities(MetaTitleFrom(html, 1))
    ELSE UNKNOWN_TITLE

\* the title property of the oEmbed responses (Null: no title property)
OEmbedTitles == {Null, <<>>, <<"A", "b">>}

\* the watch pages served to the title lookup
TitlePages ==
    { <<"<", "t", "i", "t", "l", "e", ">", "A", "b", " ", "-", " ", "Y", "o", "u", "T", "u", "b", "e", "<", "/", "t", "i", "t", "l", "e", ">">>,
      <<"<", "t", "i", "t", "l", "e", ">", " ", "-", " ", "Y", "o", "u", "T", "u", "b", "e", "<", "/", "t", "i", "t", "l", "e", ">">>,
      <<"<", "t", "i", "t", "l", "e", ">", "<", "/", "t", "i", "t", "l", "e", ">", "<", "m", "e", "t", "a", " ", "n", "a", "m", "e", "=", "\"", "t", "i", "t", "l", "e", "\"", " ", "c", "o", "n", "t", "e", "n", "t", "=", "\"", "M", "&", "a", "m", "p", ";", "m", "\"", ">">>,
      <<"<", "h", "t", "m", "l", ">", "<", "/", "h", "t", "m", "l", ">">> }

\* the watch pages with the title lines 420-434 scrape from them
TitlePageAnswers == {[html |-> html, title |-> PageTitle(html)] : html \in TitlePages}

\* ------------------------------------------------------------------------
\* Caption data served by the network
\* ------------------------------------------------------------------------

\* line 916 (the same literal at lines 552, 571, 666 and 785)
MIN_TRANSCRIPT_LENGTH == 20

\* trimmed lengths of the caption texts: none, just below, at and just
\* above the threshold
CoreLengths ==
    {0, MIN_TRANSCRIPT_LENGTH - 1, MIN_TRANSCRIPT_LENGTH,
     MIN_TRANSCRIPT_LENGTH + 1}

CaptionText(n, pad) == Rep(" ", pad) \o Rep("a", n) \o Rep(" ", pad)

CaptionTexts == {CaptionText(n, pad) : n \in CoreLengths, pad \in 0..MaxPad}

TrimmedLength(text) == Len(Trim(text))

\* a <text> element
TextElement(content) ==
    TEXT_OPEN \o <<" ", "s", "t", "a", "r", "t", "=", "\"", "0", "\"">> \o <<">">> \o content \o TEXT_CLOSE

\* the bodies served for the markup-tag format: the empty body, one element
\* per caption text, and a text split over elements with an entity
XmlBodies ==
    {<<>>}
    \cup {TextElement(text) : text \in CaptionTexts}
    \cup {TextElement(Rep("a", n - 4) \o AMP_ENT) \o TextElement(<<" ">>)
              \o TextElement(<<"b", "c">>) : n \in CoreLengths \ {0}}

\* the bodies with the transcript lines 569 and 664 parse from them
XmlAnswers ==
    {[xml |-> xml, transcript |-> parseTranscriptXml(xml)] : xml \in XmlBodies}

\* the data served for the cue-timed format: data without events, one event
\* per caption text, a text split over two events around an event without
\* segs, and an event whose seg has no utf8
Json3Events ==
    {<<>>}
    \cup {<< <<text>> >> : text \in CaptionTexts}
    \cup {<< <<Rep("a", n - 4), <<"b">>>>, <<>>, <<<<"c">>>> >> :
              n \in CoreLengths \ {0}}
    \cup {<< <<Null>> >>}

\* the json3 data with the transcript lines 543-550 build from its events
Json3Answers ==
    {[hasEvents |-> FALSE, events |-> <<>>, transcript |-> <<>>]}
    \cup {[hasEvents |-> TRUE, events |-> events,
           transcript |-> Json3Transcript(events)] : events \in Json3Events}

LANG_en == <<"e", "n">>
LANG_enUS == <<"e", "n", "-", "U", "S">>
LANG_enGB == <<"e", "n", "-", "G", "B">>
LANG_auto == <<"a", "u", "t", "o">>
LANG_es == <<"e", "s">>
LANG_fr == <<"f", "r">>
LANG_de == <<"d", "e">>
LANG_unknown == <<"u", "n", "k", "n", "o", "w", "n">>

\* the track lists served by the catalog endpoint
TrackListBodies ==
    { <<>>,
      <<"<", "t", "r", "a", "n", "s", "c", "r", "i", "p", "t", "_", "l", "i", "s", "t", "/", ">">>,
      <<"<", "t", "r", "a", "c", "k", " ", "i", "d", "=", "\"", "0", "\"", "/", ">">>,
      <<"<", "t", "r", "a", "c", "k", " ", "n", "a", "m", "e", "=", "\"", "\"", " ", "l", "a", "n", "g", "_", "c", "o", "d", "e", "=", "\"", "f", "r", "\"", "/", ">">>,
      <<"<", "t", "r", "a", "c", "k", " ", "l", "a", "n", "g", "_", "c", "o", "d", "e", "=", "\"", "d", "e", "\"", " ", "k", "i", "n", "d", "=", "\"", "a", "s", "r", "\"", "/", ">", "<", "t", "r", "a", "c", "k", " ", "l", "a", "n", "g", "_", "c", "o", "d", "e", "=", "\"", "e", "n", "-", "U", "S", "\"", "/", ">">>,
      <<"<", "t", "r", "a", "c", "k", " ", "l", "a", "n", "g", "_", "c", "o", "d", "e", "=", "\"", "e", "s", "\"", " ", "n", "a", "m", "e", "=", "\"", "a", "u", "t", "o", "-", "g", "e", "n", "e", "r", "a", "t", "e", "d", "\"", "/", ">", "<", "t", "r", "a", "c", "k", " ", "l", "a", "n", "g", "=", "\"", "x", "\"", " ", "n", "a", "m", "e", "=", "\"", "y", "\"", "/", ">">> }

\* the track lists with the tracks line 492 parses from them
TrackListAnswers ==
    {[xml |-> xml, hasTrack |-> Includes(xml, TRACK_OPEN),
      tracks |-> parseTracksXml(xml)] : xml \in TrackListBodies}

\* ------------------------------------------------------------------------
\* Track selection of getTranscriptFromTimedTextAPI
\* (src/utils/youtube.js:500-533)
\* ------------------------------------------------------------------------

\* mutant: a ninth candidate language
Languages_Nine ==
    <<LANG_en, LANG_enUS, LANG_enGB, Null, LANG_auto, LANG_es, LANG_fr,
      LANG_de, <<"i", "t">>>>

\* line 477
Languages ==
    <<LANG_en, LANG_enUS, LANG_enGB, Null, LANG_auto, LANG_es, LANG_fr,
      LANG_de>>

EnglishFamily == {LANG_en, LANG_enUS, LANG_enGB}

AUTO_GENERATED == <<"a", "u", "t", "o", "-", "g", "e", "n", "e", "r", "a", "t", "e", "d">>
AUTOMATIC == <<"a", "u", "t", "o", "m", "a", "t", "i", "c">>

\* Array.prototype.find: the first of the indices that pass the test
\* (0: undefined)
FindIndex(hits) == IF hits = {} THEN 0 ELSE Min(hits)

\* lines 505-509
LanguageMatch(track, lang) ==
    \/ track[1] = lang
    \/ track[1] = ToLowerCase(lang)
    \/ StartsWith(track[1], lang \o <<"-">>)

\* lines 513-516
AutoNameMatch(track) ==
    Includes(track[2], AUTO_GENERATED) \/ Includes(track[2], AUTOMATIC)

\* mutant: without a match the last track is used
SelectTrackIndex_Last(tracks, lang) ==
    LET byLang == IF lang = Null THEN 0
                  ELSE FindIndex({k \in 1..Len(tracks) :
                                     LanguageMatch(tracks[k], lang)})
        byAuto == IF byLang = 0 /\ lang = LANG_auto
                  THEN FindIndex({k \in 1..Len(tracks) :
                                     AutoNameMatch(tracks[k])})
                  ELSE byLang
        byEnglish == FindIndex({k \in 1..Len(tracks) :
                                    tracks[k][1] \in EnglishFamily})
    IN IF byAuto # 0 THEN byAuto
       ELSE IF byEnglish # 0 THEN byEnglish
       ELSE Len(tracks)

\* the index in tracks of selectedTrack (tracks is not empty)
SelectTrackIndex(tracks, lang) ==
    LET byLang == IF lang = Null THEN 0
                  ELSE FindIndex({k \in 1..Len(tracks) :
                                     LanguageMatch(tracks[k], lang)})
        byAuto == IF byLang = 0 /\ lang = LANG_auto
                  THEN FindIndex({k \in 1..Len(tracks) :
                                     AutoNameMatch(tracks[k])})
                  ELSE byLang
        byEnglish == FindIndex({k \in 1..Len(tracks) :
                                    tracks[k][1] \in EnglishFamily})
    IN IF byAuto # 0 THEN byAuto
       ELSE IF byEnglish # 0 THEN byEnglish
       ELSE 1

SelectTrack(tracks, lang) == tracks[SelectTrackIndex(tracks, lang)]

\* ------------------------------------------------------------------------
\* Data served to getTranscriptFromWatchPage (src/utils/youtube.js:595-683)
\* The captionTracks blob of a watch page is modelled after the scrape and
\* JSON.parse of lines 612-634: whether the pattern was found, whether
\* JSON.parse accepts the cleaned text, and the parsed sequence of tracks
\* <<languageCode, baseUrl, kind>> (Null: property absent).
\* ------------------------------------------------------------------------

BASE_URL == <<"u">>
KIND_asr == <<"a", "s", "r">>

WatchPageBlob(found, parses, tracks) ==
    [found |-> found, parses |-> parses, tracks |-> tracks]

WatchPageBlobs ==
    { WatchPageBlob(FALSE, FALSE, <<>>),
      WatchPageBlob(TRUE, FALSE, <<>>),
      WatchPageBlob(TRUE, TRUE, <<>>),
      WatchPageBlob(TRUE, TRUE, << <<LANG_fr, Null, Null>> >>),
      WatchPageBlob(TRUE, TRUE,
                    << <<LANG_fr, BASE_URL, Null>>,
                       <<LANG_enUS, BASE_URL, KIND_asr>>,
                       <<LANG_en, BASE_URL, Null>> >>),
      WatchPageBlob(TRUE, TRUE, << <<Null, BASE_URL, Null>> >>) }

\* lines 643-649: the index of selectedTrack in a non-empty captionTracks
WatchPageTrackIndex(captionTracks) ==
    LET english == FindIndex({k \in 1..Len(captionTracks) :
                                  captionTracks[k][1] \in EnglishFamily})
    IN IF english # 0 THEN english ELSE 1

\* ------------------------------------------------------------------------
\* Data served to getTranscriptFromInnertubeAPI (src/utils/youtube.js:688-802)
\* A watch page is <<has INNERTUBE_API_KEY, has INNERTUBE_CLIENT_VERSION>>.
\* A get_transcript response has or lacks actions; its first action says
\* where the renderer lives ("panel": updateEngagementPanelAction,
\* "continuation": appendContinuationItemsAction, "other": neither), whether
\* a transcriptRenderer is there, the languageCode of its header (Null:
\* absent) and its cueGroups; a cue group is the sequence of the simpleText
\* values of its cues (Null: absent).
\* ------------------------------------------------------------------------

InnertubePages == BOOLEAN \X BOOLEAN

InnertubeAction(location, hasRenderer, languageCode, cueGroups) ==
    [location |-> location, hasRenderer |-> hasRenderer,
     languageCode |-> languageCode, cueGroups |-> cueGroups]

InnertubeActions ==
    {InnertubeAction(loc, TRUE, LANG_en, << <<text>> >>) :
        loc \in {"panel", "continuation"}, text \in CaptionTexts}
    \cup {InnertubeAction("panel", TRUE, Null,
                          << <<Rep("a", n - 4), <<"b">>>>, <<<<"c">>, Null>> >>) :
              n \in CoreLengths \ {0}}
    \cup {InnertubeAction(loc, FALSE, Null, <<>>) :
              loc \in {"panel", "continuation"}}
    \cup {InnertubeAction("other", TRUE, LANG_en,
                          << <<CaptionText(MIN_TRANSCRIPT_LENGTH + 1, 0)>> >>)}

InnertubeResponses ==
    {[hasActions |-> FALSE, actions |-> <<>>],
     [hasActions |-> TRUE, actions |-> <<>>]}
    \cup {[hasActions |-> TRUE, actions |-> <<a>>] : a \in InnertubeActions}

\* lines 776-783
CueText(cueGroups) ==
    JoinSpace([g \in 1..Len(cueGroups) |->
                  JoinSpace([c \in 1..Len(cueGroups[g]) |->
                                OrEmpty(cueGroups[g][c])])])

\* lines 762-763: a transcriptRenderer was found at a known location
HasCaptionRenderer(action) ==
    action.location \in {"panel", "continuation"} /\ action.hasRenderer

\* ------------------------------------------------------------------------
\* getVideoTranscript (src/utils/youtube.js:888-955): state
\* ------------------------------------------------------------------------

VARIABLES
    pc,          \* where the call is suspended: the request it awaits
    url,         \* the reference string of the call
    videoId,     \* const videoId (line 892)
    title,       \* const title (line 901)
    li,          \* index in Languages of lang (line 479), 0 outside channel 1
    sel,         \* language code of selectedTrack (lines 535, 649)
    outcome,     \* the object the call returned
    invoked,     \* history: how many times each channel was invoked
    chanState,   \* history: idle, running, threw or returned, per channel
    chanResult,  \* history: the result each channel returned
    nreq,        \* history: upstream requests of this call, by requester
    got,         \* history: the caption text the last step obtained
    nonce,       \* clientScreenNonce of the pending get_transcript request
    memo,        \* the answers a deterministic transport has given so far
    returned,    \* history: the outcomes returned so far, with their url
    other,       \* the local variables of a second call, suspended
    fn,          \* the pure function under check
    arg,         \* its input
    res,         \* its output
    jobStore,    \* const jobStore (line 975): the job of each id
    runs,        \* the processJob calls, running and finished
    net,         \* the process-job requests under way, per job id
    reply,       \* the response the last API handler sent
    client,      \* the state of the polling page
    gs           \* the locals of a generateSummary call

\* the variables of one call
locals ==
    <<pc, url, videoId, title, li, sel, outcome, invoked, chanState,
      chanResult, nreq, got, nonce>>

\* what getVideoTranscript leaves alone
\* the variables of the job API, of the polling page and of generateSummary
app == <<jobStore, runs, net, reply, client, gs>>

aux == <<memo, returned, other, fn, arg, res, app>>

vars ==
    <<pc, url, videoId, title, li, sel, outcome, invoked, chanState,
      chanResult, nreq, got, nonce, memo, returned, other, fn, arg, res,
      jobStore, runs, net, reply, client, gs>>

\* lines 905-909
Methods ==
    << [name |-> "TimedText API", entry |-> "tt_list"],
       [name |-> "Watch Page", entry |-> "wp_page"],
       [name |-> "Innertube API", entry |-> "it_page"] >>

Channels == 1..Len(Methods)

ERR_NO_ID == "Could not extract video ID from URL"
ERR_EXHAUSTED ==
    "Could not retrieve transcript after trying multiple methods. The video may not have captions available."

NoOutcome == [pending |-> TRUE]
NoResult == [success |-> FALSE, transcript |-> <<>>, language |-> Null]
NoText == [chan |-> 0, length |-> 0, accepted |-> FALSE]
NoNonce == "none"

\* a request that failed: network error, timeout, status outside 2xx
Failure == [failed |-> TRUE]

IsFailure(ans) == "failed" \in DOMAIN ans

\* the object a channel returns (lines 553-557, 572-576, 667-671, 789-793)
Result(transcript, language) ==
    [success |-> TRUE, transcript |-> transcript, language |-> language]

Obtained(i, text, accepted) ==
    [chan |-> i, length |-> TrimmedLength(text), accepted |-> accepted]

Requesters == {"title", "tt", "wp", "it"}

Requested(who) == nreq' = [nreq EXCEPT ![who] = @ + 1]

\* mutant: the failure object lacks the success flag
NoIdOutcome_NoFlag(u) == [url |-> u, error |-> ERR_NO_ID]

\* lines 894-898
NoIdOutcome(u) == [url |-> u, success |-> FALSE, error |-> ERR_NO_ID]

\* mutant: the outcome always names the first method
SuccessOutcome_FirstMethod(i, result) ==
    [video_id |-> videoId, title |-> title,
     transcript |-> result.transcript, language |-> result.language,
     url |-> url, method |-> Methods[1].name, success |-> TRUE]

\* mutant: the success outcome carries the client screen nonce
SuccessOutcome_Nonce(i, result) ==
    [video_id |-> videoId, title |-> title,
     transcript |-> result.transcript, language |-> result.language,
     url |-> url, method |-> Methods[i].name, success |-> TRUE,
     nonce |-> nonce]

\* lines 919-927
SuccessOutcome(i, result) ==
    [video_id |-> videoId, title |-> title,
     transcript |-> result.transcript, language |-> result.language,
     url |-> url, method |-> Methods[i].name, success |-> TRUE]

\* mutant: the exhausted outcome carries the last channel's transcript
ExhaustedOutcome_Partial ==
    [video_id |-> videoId, title |-> title, url |-> url,
     transcript |-> chanResult[Len(Methods)].transcript,
     success |-> FALSE, error |-> ERR_EXHAUSTED]

\* mutant: the exhausted outcome has the shape of the catch-all outcome
ExhaustedOutcome_Bare ==
    [url |-> url, success |-> FALSE, error |-> ERR_EXHAUSTED]

\* lines 939-945
ExhaustedOutcome ==
    [video_id |-> videoId, title |-> title, url |-> url,
     success |-> FALSE, error |-> ERR_EXHAUSTED]

\* line 916
IsValid(result) ==
    /\ result.success
    /\ result.transcript # <<>>
    /\ TrimmedLength(result.transcript) >= MIN_TRANSCRIPT_LENGTH

\* line 914: the loop invokes methods[i]
Invoke(i, states) ==
    /\ pc' = Methods[i].entry
    /\ invoked' = [invoked EXCEPT ![i] = @ + 1]
    /\ chanState' = [states EXCEPT ![i] = "running"]
    /\ outcome' = outcome

\* mutant: after the first failure the loop jumps to the last method
Advance_Skip(i, states) ==
    IF i < Len(Methods)
    THEN Invoke(Len(Methods), states)
    ELSE /\ pc' = "done"
         /\ outcome' = ExhaustedOutcome
         /\ chanState' = states
         /\ invoked' = invoked

\* mutant: the last method is tried a second time before the loop ends
Advance_Retry(i, states) ==
    IF i < Len(Methods)
    THEN Invoke(i + 1, states)
    ELSE IF invoked[i] < 2
    THEN Invoke(i, states)
    ELSE /\ pc' = "done"
         /\ outcome' = ExhaustedOutcome
         /\ chanState' = states
         /\ invoked' = invoked

\* lines 911, 937-945: the loop goes on to the next method, or ends
Advance(i, states) ==
    IF i < Len(Methods)
    THEN Invoke(i + 1, states)
    ELSE /\ pc' = "done"
         /\ outcome' = ExhaustedOutcome
         /\ chanState' = states
         /\ invoked' = invoked

\* mutant: a valid result does not end the loop
ChannelReturns_NoReturn(i, result) ==
    /\ chanResult' = [chanResult EXCEPT ![i] = result]
    /\ Advance(i, [chanState EXCEPT ![i] = "returned"])

\* lines 914-930: channel i returned result
ChannelReturns(i, result) ==
    /\ chanResult' = [chanResult EXCEPT ![i] = result]
    /\ IF IsValid(result)
       THEN /\ pc' = "done"
            /\ outcome' = SuccessOutcome(i, result)
            /\ chanState' = [chanState EXCEPT ![i] = "returned"]
            /\ invoked' = invoked
       ELSE Advance(i, [chanState EXCEPT ![i] = "returned"])

\* mutant: the failure of a channel is thrown on to the caller
ChannelThrows_Propagates(i) ==
    /\ chanResult' = chanResult
    /\ pc' = "raised"
    /\ outcome' = outcome
    /\ chanState' = [chanState EXCEPT ![i] = "threw"]
    /\ invoked' = invoked

\* lines 931-934: channel i threw
ChannelThrows(i) ==
    /\ chanResult' = chanResult
    /\ Advance(i, [chanState EXCEPT ![i] = "threw"])

\* line 901 resolved: the loop starts
TitleResolved(t) ==
    /\ title' = t
    /\ Invoke(1, chanState)
    /\ li' = 1
    /\ chanResult' = chanResult
    /\ UNCHANGED <<url, videoId, sel, got, nonce>>

\* the local variables of a call that has not started
NoCall ==
    [pc |-> "idle", url |-> Null, videoId |-> Null, title |-> Null,
     li |-> 0, sel |-> Null, outcome |-> NoOutcome,
     invoked |-> [i \in Channels |-> 0],
     chanState |-> [i \in Channels |-> "idle"],
     chanResult |-> [i \in Channels |-> NoResult],
     nreq |-> [who \in Requesters |-> 0], got |-> NoText,
     nonce |-> NoNonce]

\* a pure function that has not been applied, and one that returned value
NotApplied == [done |-> FALSE]
Applied(value) == [done |-> TRUE, value |-> value]

\* null in a field of a job, of a response or of a result (these fields are
\* modelled as strings)
NoValue == "null"

\* the job ids generateJobId can return (line 978); the model takes them
\* in order, one per createJob, so that two jobs never share an id
JobIds == 1..MaxJobs

\* an id generateJobId has not returned yet, and an id whose entry is not
\* in the map any more
Unused == [exists |-> FALSE, deleted |-> FALSE]
Deleted == [exists |-> FALSE, deleted |-> TRUE]

NoReply == [endpoint |-> "none"]

\* the page before a submission. view holds the state values of the last
\* render, which the handlers and the effect clean-up of that render see;
\* captured is the pollingInterval the running checkJobStatus closure sees;
\* timer is the interval the browser runs.
ClientIdle ==
    [pc |-> "idle", jobId |-> NoValue, isLoading |-> FALSE,
     result |-> NoValue, error |-> NoValue, pollingInterval |-> NoValue,
     view |-> [isLoading |-> FALSE, pollingInterval |-> NoValue],
     captured |-> NoValue, timer |-> NoValue, inflight |-> 0]

\* no generateSummary call
SummaryIdle ==
    [pc |-> "idle", transcript |-> Null, attempts |-> 0,
     lastError |-> [none |-> TRUE], requests |-> 0,
     result |-> [pending |-> TRUE]]

\* no job, no request, the page idle
AppIdle ==
    /\ jobStore = [j \in JobIds |-> Unused]
    /\ runs = {}
    /\ net = [j \in JobIds |-> 0]
    /\ reply = NoReply
    /\ client = ClientIdle
    /\ gs = SummaryIdle

\* no call has started
Idle ==
    /\ pc = "idle"
    /\ url = Null
    /\ videoId = Null
    /\ title = Null
    /\ li = 0
    /\ sel = Null
    /\ outcome = NoOutcome
    /\ invoked = [i \in Channels |-> 0]
    /\ chanState = [i \in Channels |-> "idle"]
    /\ chanResult = [i \in Channels |-> NoResult]
    /\ nreq = [who \in Requesters |-> 0]
    /\ got = NoText
    /\ nonce = NoNonce

Init ==
    /\ Idle
    /\ memo = {}
    /\ returned = {}
    /\ other = NoCall
    /\ fn = "none"
    /\ arg = <<>>
    /\ res = NotApplied
    /\ AppIdle

\* ------------------------------------------------------------------------
\* getVideoTranscript: steps.  A step is the code that runs between two
\* awaits: it handles the answer of the awaited request.
\* ------------------------------------------------------------------------

\* the reference strings with the identifier line 892 extracts from them
RefAnswers == {[url |-> u, videoId |-> extractVideoId(u)] : u \in Refs}

\* what a call sets when it starts
Entered ==
    /\ title' = Null
    /\ li' = 0
    /\ sel' = Null
    /\ invoked' = [i \in Channels |-> 0]
    /\ chanState' = [i \in Channels |-> "idle"]
    /\ chanResult' = [i \in Channels |-> NoResult]
    /\ nreq' = [who \in Requesters |-> 0]
    /\ got' = NoText
    /\ nonce' = NoNonce

\* mutant: the call goes on without an identifier
CallOn_NoIdCheck(ref) ==
    /\ pc \in {"idle", "done"}
    /\ url' = ref.url
    /\ videoId' = ref.videoId
    /\ pc' = "title_oembed"
    /\ outcome' = NoOutcome
    /\ Entered

\* lines 888-901: a call starts on a reference string (the previous call,
\* if any, has returned)
CallOn(ref) ==
    /\ pc \in {"idle", "done"}
    /\ url' = ref.url
    /\ videoId' = ref.videoId
    /\ IF ref.videoId = Null
       THEN pc' = "done" /\ outcome' = NoIdOutcome(ref.url)
       ELSE pc' = "title_oembed" /\ outcome' = NoOutcome
    /\ Entered

Call ==
    /\ \E ref \in RefAnswers : CallOn(ref)
    /\ UNCHANGED aux

\* the oEmbed responses
OEmbedAnswers == {[title |-> t] : t \in OEmbedTitles}

\* getVideoTitle, lines 400-409: the oEmbed request answers
TitleOEmbedOn(ans) ==
    /\ pc = "title_oembed"
    /\ Requested("title")
    /\ IF ~IsFailure(ans) /\ ans.title # Null /\ ans.title # <<>>
       THEN TitleResolved(ans.title)
       ELSE \* no title, or the request failed (line 407)
            /\ pc' = "title_page"
            /\ UNCHANGED <<url, videoId, title, li, sel, outcome, invoked,
                           chanState, chanResult, got, nonce>>

TitleOEmbed ==
    /\ \E ans \in OEmbedAnswers \cup {Failure} : TitleOEmbedOn(ans)
    /\ UNCHANGED aux

\* getVideoTitle, lines 411-438: the watch-page request answers
TitlePageOn(ans) ==
    /\ pc = "title_page"
    /\ Requested("title")
    /\ IF ~IsFailure(ans)
       THEN TitleResolved(ans.title)
       ELSE \* the request failed, or its data is not text (line 435)
            TitleResolved(UNKNOWN_TITLE)

TitlePage ==
    /\ \E ans \in TitlePageAnswers \cup {Failure} : TitlePageOn(ans)
    /\ UNCHANGED aux

\* mutant: a failed attempt ends channel 1
NextLanguage_Abort ==
    /\ sel' = Null
    /\ li' = 0
    /\ ChannelThrows(1)

\* the per-language loop of channel 1 goes on (lines 479, 585)
NextLanguage ==
    /\ sel' = Null
    /\ IF li < Len(Languages)
       THEN /\ li' = li + 1
            /\ pc' = "tt_list"
            /\ UNCHANGED <<outcome, invoked, chanState, chanResult>>
       ELSE /\ li' = 0
            /\ ChannelThrows(1)

\* mutant: channel 1 goes on to the next language with an accepted text
TimedTextReturns_Continue(transcript) == NextLanguage

\* channel 1 returns (lines 553-557, 572-576)
TimedTextReturns(transcript) ==
    /\ ChannelReturns(1, Result(transcript, sel))
    /\ li' = 0
    /\ sel' = Null

\* lines 552, 571
TimedTextAccepts(transcript) ==
    TrimmedLength(transcript) > MIN_TRANSCRIPT_LENGTH

\* mutant: the XML format is requested first
TTListOn_XmlFirst(ans) ==
    /\ pc = "tt_list"
    /\ Requested("tt")
    /\ got' = NoText
    /\ UNCHANGED <<url, videoId, title, nonce>>
    /\ IF ~IsFailure(ans) /\ ans.hasTrack /\ ans.tracks # <<>>
       THEN /\ sel' = SelectTrack(ans.tracks, Languages[li])[1]
            /\ pc' = "tt_xml"
            /\ UNCHANGED <<li, outcome, invoked, chanState, chanResult>>
       ELSE NextLanguage

\* lines 481-535: the track-list request answers
TTListOn(ans) ==
    /\ pc = "tt_list"
    /\ Requested("tt")
    /\ got' = NoText
    /\ UNCHANGED <<url, videoId, title, nonce>>
    /\ IF ~IsFailure(ans) /\ ans.hasTrack /\ ans.tracks # <<>>
       THEN /\ sel' = SelectTrack(ans.tracks, Languages[li])[1]
            /\ pc' = "tt_json3"
            /\ UNCHANGED <<li, outcome, invoked, chanState, chanResult>>
       ELSE \* no track, or the request failed (line 579)
            NextLanguage

TTList ==
    /\ \E ans \in TrackListAnswers \cup {Failure} : TTListOn(ans)
    /\ UNCHANGED aux

\* lines 537-562: the json3 request answers
TTJson3On(ans) ==
    /\ pc = "tt_json3"
    /\ Requested("tt")
    /\ UNCHANGED <<url, videoId, title, nonce>>
    /\ IF ~IsFailure(ans) /\ ans.hasEvents
       THEN LET transcript == ans.transcript
            IN /\ got' = Obtained(1, transcript,
                                  TimedTextAccepts(transcript))
               /\ IF TimedTextAccepts(transcript)
                  THEN TimedTextReturns(transcript)
                  ELSE /\ pc' = "tt_xml"
                       /\ UNCHANGED <<li, sel, outcome, invoked,
                                      chanState, chanResult>>
       ELSE \* no events, or the request failed, or its data has another
            \* shape (line 560)
            /\ got' = NoText
            /\ pc' = "tt_xml"
            /\ UNCHANGED <<li, sel, outcome, invoked, chanState, chanResult>>

TTJson3 ==
    /\ \E ans \in Json3Answers \cup {Failure} : TTJson3On(ans)
    /\ UNCHANGED aux

\* lines 564-582: the XML request answers
TTXmlOn(ans) ==
    /\ pc = "tt_xml"
    /\ Requested("tt")
    /\ UNCHANGED <<url, videoId, title, nonce>>
    /\ IF ~IsFailure(ans) /\ ans.xml # <<>>
       THEN LET transcript == ans.transcript
            IN /\ got' = Obtained(1, transcript,
                                  TimedTextAccepts(transcript))
               /\ IF TimedTextAccepts(transcript)
                  THEN TimedTextReturns(transcript)
                  ELSE NextLanguage
       ELSE \* no data, or the request failed (line 579)
            got' = NoText /\ NextLanguage

TTXml ==
    /\ \E ans \in XmlAnswers \cup {Failure} : TTXmlOn(ans)
    /\ UNCHANGED aux

\* lines 666, 673
WatchPageAccepts(transcript) ==
    TrimmedLength(transcript) > MIN_TRANSCRIPT_LENGTH

\* lines 599-654: the watch-page request of channel 2 answers
WPPageOn(ans) ==
    /\ pc = "wp_page"
    /\ Requested("wp")
    /\ got' = NoText
    /\ li' = li
    /\ UNCHANGED <<url, videoId, title, nonce>>
    /\ IF /\ ~IsFailure(ans)
          /\ ans.found
          /\ ans.parses
          /\ ans.tracks # <<>>
          /\ ans.tracks[WatchPageTrackIndex(ans.tracks)][2] # Null
       THEN /\ sel' = ans.tracks[WatchPageTrackIndex(ans.tracks)][1]
            /\ pc' = "wp_track"
            /\ UNCHANGED <<outcome, invoked, chanState, chanResult>>
       ELSE \* no usable track, or the request failed, or its data is not
            \* text (line 679)
            sel' = Null /\ ChannelThrows(2)

WPPage ==
    /\ \E ans \in WatchPageBlobs \cup {Failure} : WPPageOn(ans)
    /\ UNCHANGED aux

\* lines 656-674: the request for the selected track answers
WPTrackOn(ans) ==
    /\ pc = "wp_track"
    /\ Requested("wp")
    /\ li' = li
    /\ sel' = Null
    /\ UNCHANGED <<url, videoId, title, nonce>>
    /\ IF ~IsFailure(ans) /\ ans.xml # <<>>
       THEN LET transcript == ans.transcript
            IN /\ got' = Obtained(2, transcript,
                                  WatchPageAccepts(transcript))
               /\ IF WatchPageAccepts(transcript)
                  THEN ChannelReturns(2,
                           Result(transcript,
                                  IF sel = Null THEN LANG_unknown
                                  ELSE sel))
                  ELSE ChannelThrows(2)
       ELSE \* no data, or the request failed (line 675)
            got' = NoText /\ ChannelThrows(2)

WPTrack ==
    /\ \E ans \in XmlAnswers \cup {Failure} : WPTrackOn(ans)
    /\ UNCHANGED aux

\* lines 807-809: the nonces generateNonce can produce from the timestamp
\* and Math.random
Nonces == {"nonce1", "nonce2"}

\* the watch pages served to channel 3
InnertubePageAnswers ==
    {[hasKey |-> page[1], hasVersion |-> page[2]] : page \in InnertubePages}

\* line 785
InnertubeAccepts(transcript) ==
    transcript # <<>> /\ ~(TrimmedLength(transcript) < MIN_TRANSCRIPT_LENGTH)

\* mutant: the get_transcript request is sent whatever the page holds
ITPageOn_NoCheck(ans, n) ==
    /\ pc = "it_page"
    /\ Requested("it")
    /\ got' = NoText
    /\ UNCHANGED <<url, videoId, title, li, sel>>
    /\ IF ~IsFailure(ans)
       THEN /\ pc' = "it_post"
            /\ nonce' = n
            /\ UNCHANGED <<outcome, invoked, chanState, chanResult>>
       ELSE nonce' = nonce /\ ChannelThrows(3)

\* lines 692-747: the watch-page request of channel 3 answers; the
\* get_transcript request is sent with a fresh nonce
ITPageOn(ans, n) ==
    /\ pc = "it_page"
    /\ Requested("it")
    /\ got' = NoText
    /\ UNCHANGED <<url, videoId, title, li, sel>>
    /\ IF ~IsFailure(ans) /\ ans.hasKey /\ ans.hasVersion
       THEN /\ pc' = "it_post"
            /\ nonce' = n
            /\ UNCHANGED <<outcome, invoked, chanState, chanResult>>
       ELSE \* no key or version, or the request failed, or its data is
            \* not text (line 798)
            nonce' = nonce /\ ChannelThrows(3)

ITPage ==
    /\ \E ans \in InnertubePageAnswers \cup {Failure}, n \in Nonces :
           ITPageOn(ans, n)
    /\ UNCHANGED aux

\* lines 741-797: the get_transcript request answers
ITPostOn(ans) ==
    /\ pc = "it_post"
    /\ Requested("it")
    /\ nonce' = NoNonce
    /\ UNCHANGED <<url, videoId, title, li, sel>>
    /\ IF /\ ~IsFailure(ans)
          /\ ans.hasActions
          /\ ans.actions # <<>>
          /\ HasCaptionRenderer(ans.actions[1])
       THEN LET renderer == ans.actions[1]
                transcript == CueText(renderer.cueGroups)
                language == IF renderer.languageCode = Null
                            THEN LANG_unknown
                            ELSE renderer.languageCode
            IN /\ got' = Obtained(3, transcript,
                                  InnertubeAccepts(transcript))
               /\ IF InnertubeAccepts(transcript)
                  THEN ChannelReturns(3, Result(transcript, language))
                  ELSE ChannelThrows(3)
       ELSE \* no renderer, or the request failed (line 798)
            got' = NoText /\ ChannelThrows(3)

ITPost ==
    /\ \E ans \in InnertubeResponses \cup {Failure} : ITPostOn(ans)
    /\ UNCHANGED aux

Next ==
    \/ Call
    \/ TitleOEmbed
    \/ TitlePage
    \/ TTList
    \/ TTJson3
    \/ TTXml
    \/ WPPage
    \/ WPTrack
    \/ ITPage
    \/ ITPost

Spec == Init /\ [][Next]_vars

\* every request is answered or fails (each carries a timeout: lines 402,
\* 417, 483, 540, 566, 606, 657, 699, 746)
Answered ==
    \/ TitleOEmbed
    \/ TitlePage
    \/ TTList
    \/ TTJson3
    \/ TTXml
    \/ WPPage
    \/ WPTrack
    \/ ITPage
    \/ ITPost

FairSpec == Spec /\ WF_vars(Answered)

\* ------------------------------------------------------------------------
\* getVideoTranscript against a deterministic transport: a request target
\* gets the same answer every time.  memo holds the answers given so far;
\* the answer to a target not asked before is free.
\* ------------------------------------------------------------------------

\* the answers the deterministic transport chooses from, by request
DetAnswers ==
    [oembed |-> {a \in OEmbedAnswers : a.title \notin {Null, <<>>}},
     title_page |-> {a \in TitlePageAnswers : a.title = <<"M", "&", "m">>},
     list |-> {a \in TrackListAnswers : Len(a.tracks) = 1},
     json3 |-> {a \in Json3Answers :
                   /\ Len(a.events) = 1
                   /\ a.transcript \in
                          {CaptionText(MIN_TRANSCRIPT_LENGTH, 0),
                           CaptionText(MIN_TRANSCRIPT_LENGTH + 1, 0)}},
     xml |-> {a \in XmlAnswers :
                 a.xml = TextElement(CaptionText(MIN_TRANSCRIPT_LENGTH + 1, 0))},
     wp_page |-> {a \in WatchPageBlobs : Len(a.tracks) = 3},
     wp_track |-> {a \in XmlAnswers :
                      a.xml = TextElement(CaptionText(MIN_TRANSCRIPT_LENGTH, 0))
                      \/ a.xml = TextElement(CaptionText(MIN_TRANSCRIPT_LENGTH + 1, 0))},
     it_page |-> {a \in InnertubePageAnswers : a.hasKey /\ a.hasVersion},
     it_post |-> {a \in InnertubeResponses :
                     /\ a.actions # <<>>
                     /\ a.actions[1].location = "panel"
                     /\ a.actions[1].hasRenderer
                     /\ Len(a.actions[1].cueGroups) = 1
                     /\ CueText(a.actions[1].cueGroups)
                            = CaptionText(MIN_TRANSCRIPT_LENGTH, 0)}]

\* the reference strings of the calls: one names a video, one names none
DetRefs ==
    {ref \in RefAnswers :
        ref.url \in {HTTPS \o WWW \o YT_WATCH_V \o ID_ab,
                     <<"h", "e", "l", "l", "o">>}}

\* the requests whose url names the selected track (lines 539, 565, 650)
PerTrack == {"json3", "xml", "wp_track"}

\* the target of the request the call awaits
Target(kind) == <<videoId, kind, IF kind \in PerTrack THEN sel ELSE Null>>

\* the transport answers the awaited request with ans
Served(kind, ans) ==
    /\ ans \in DetAnswers[kind] \cup {Failure}
    /\ \A m \in memo : m.key = Target(kind) => m.ans = ans
    /\ memo' = memo \cup {[key |-> Target(kind), ans |-> ans]}

\* history: the outcome of a call that returns in this step, and whether a
\* call with the same reference had returned before
Returns ==
    returned' = IF pc' = "done"
                THEN returned \cup
                         {[url |-> url', outcome |-> outcome',
                           again |-> \E r \in returned : r.url = url']}
                ELSE returned

DetCall ==
    /\ \E ref \in DetRefs : CallOn(ref)
    /\ Returns
    /\ UNCHANGED <<memo, other, fn, arg, res, app>>

DetTitleOEmbed ==
    /\ \E ans \in DetAnswers.oembed \cup {Failure} :
           Served("oembed", ans) /\ TitleOEmbedOn(ans)
    /\ Returns
    /\ UNCHANGED <<other, fn, arg, res, app>>

DetTitlePage ==
    /\ \E ans \in DetAnswers.title_page \cup {Failure} :
           Served("title_page", ans) /\ TitlePageOn(ans)
    /\ Returns
    /\ UNCHANGED <<other, fn, arg, res, app>>

DetTTList ==
    /\ \E ans \in DetAnswers.list \cup {Failure} :
           Served("list", ans) /\ TTListOn(ans)
    /\ Returns
    /\ UNCHANGED <<other, fn, arg, res, app>>

DetTTJson3 ==
    /\ \E ans \in DetAnswers.json3 \cup {Failure} :
           Served("json3", ans) /\ TTJson3On(ans)
    /\ Returns
    /\ UNCHANGED <<other, fn, arg, res, app>>

DetTTXml ==
    /\ \E ans \in DetAnswers.xml \cup {Failure} :
           Served("xml", ans) /\ TTXmlOn(ans)
    /\ Returns
    /\ UNCHANGED <<other, fn, arg, res, app>>

DetWPPage ==
    /\ \E ans \in DetAnswers.wp_page \cup {Failure} :
           Served("wp_page", ans) /\ WPPageOn(ans)
    /\ Returns
    /\ UNCHANGED <<other, fn, arg, res, app>>

DetWPTrack ==
    /\ \E ans \in DetAnswers.wp_track \cup {Failure} :
           Served("wp_track", ans) /\ WPTrackOn(ans)
    /\ Returns
    /\ UNCHANGED <<other, fn, arg, res, app>>

DetITPage ==
    /\ \E ans \in DetAnswers.it_page \cup {Failure}, n \in Nonces :
           Served("it_page", ans) /\ ITPageOn(ans, n)
    /\ Returns
    /\ UNCHANGED <<other, fn, arg, res, app>>

DetITPost ==
    /\ \E ans \in DetAnswers.it_post \cup {Failure} :
           Served("it_post", ans) /\ ITPostOn(ans)
    /\ Returns
    /\ UNCHANGED <<other, fn, arg, res, app>>

DetNext ==
    \/ DetCall
    \/ DetTitleOEmbed
    \/ DetTitlePage
    \/ DetTTList
    \/ DetTTJson3
    \/ DetTTXml
    \/ DetWPPage
    \/ DetWPTrack
    \/ DetITPage
    \/ DetITPost

\* calls one after the other against a deterministic transport
DetSpec == Init /\ [][DetNext]_vars

\* the locals of the running call, as a record
Running ==
    [pc |-> pc, url |-> url, videoId |-> videoId, title |-> title,
     li |-> li, sel |-> sel, outcome |-> outcome, invoked |-> invoked,
     chanState |-> chanState, chanResult |-> chanResult, nreq |-> nreq,
     got |-> got, nonce |-> nonce]

\* mutant: title is a variable of the module, shared by the two calls
Switch_SharedTitle ==
    /\ other' = Running
    /\ pc' = other.pc
    /\ url' = other.url
    /\ videoId' = other.videoId
    /\ li' = other.li
    /\ sel' = other.sel
    /\ outcome' = other.outcome
    /\ invoked' = other.invoked
    /\ chanState' = other.chanState
    /\ chanResult' = other.chanResult
    /\ nreq' = other.nreq
    /\ got' = other.got
    /\ nonce' = other.nonce
    /\ UNCHANGED <<title, memo, returned, fn, arg, res, app>>

\* the event loop resumes the other call: every variable of
\* getVideoTranscript and of the functions it calls is local to the call
Switch ==
    /\ other' = Running
    /\ pc' = other.pc
    /\ url' = other.url
    /\ videoId' = other.videoId
    /\ title' = other.title
    /\ li' = other.li
    /\ sel' = other.sel
    /\ outcome' = other.outcome
    /\ invoked' = other.invoked
    /\ chanState' = other.chanState
    /\ chanResult' = other.chanResult
    /\ nreq' = other.nreq
    /\ got' = other.got
    /\ nonce' = other.nonce
    /\ UNCHANGED <<memo, returned, fn, arg, res, app>>

ConcNext ==
    \/ DetNext
    \/ Switch

\* two calls interleaved at their awaits against a deterministic transport
ConcSpec == Init /\ [][ConcNext]_vars

\* ------------------------------------------------------------------------
\* The pure functions of src/utils/youtube.js, applied to inputs drawn from
\* bounded sets
\* ------------------------------------------------------------------------

\* the sequences of 0..n elements of S
RECURSIVE SeqsUpTo(_, _)
SeqsUpTo(S, n) ==
    IF n = 0 THEN {<<>>}
    ELSE SeqsUpTo(S, n - 1)
         \cup {Append(q, x) : q \in {t \in SeqsUpTo(S, n - 1) : Len(t) = n - 1},
                              x \in S}

\* the concatenation of a sequence of strings
RECURSIVE Concat(_)
Concat(parts) ==
    IF parts = <<>> THEN <<>> ELSE Head(parts) \o Concat(Tail(parts))

\* parsed tracks <<lang_code, name, kind>>: manual and auto-generated
\* English tracks, other languages, and codes that match by lower case or
\* by prefix
CatalogTracks ==
    { <<LANG_en, <<"E">>, <<>>>>,
      <<LANG_en, <<"E">>, KIND_asr>>,
      <<LANG_en, <<"E", " ">> \o AUTO_GENERATED, <<>>>>,
      <<LANG_fr, <<"F">>, <<>>>>,
      <<LANG_es, AUTOMATIC, KIND_asr>>,
      <<LANG_enGB, <<>>, <<>>>>,
      <<ToLowerCase(LANG_enUS), <<>>, <<>>>>,
      <<LANG_de \o <<"-", "C", "H">>, <<"D">>, <<>>>> }

\* the non-empty catalogs
Catalogs == SeqsUpTo(CatalogTracks, MaxTracks) \ {<<>>}

\* the candidate languages of line 477
CandidateLanguages == {Languages[k] : k \in 1..Len(Languages)}

SelectTrackInputs ==
    {[tracks |-> tracks, lang |-> lang] :
        tracks \in Catalogs, lang \in CandidateLanguages}

\* lines 500-533 applied to a catalog and a candidate language
ApplySelectTrack ==
    /\ fn = "SelectTrack"
    /\ ~res.done
    /\ res' = Applied(SelectTrackIndex(arg.tracks, arg.lang))
    /\ UNCHANGED <<locals, memo, returned, other, fn, arg, app>>

\* an element of a track list: a <track> element (shape "track") or an
\* element of the alternative format (shape "alt") with the attributes
\* that are not Null, or an element of neither shape
Attr(lit, value) ==
    IF value = Null THEN <<>> ELSE <<" ">> \o lit \o value \o <<"\"">>

TrackFragment(f) ==
    CASE f.shape = "track" ->
             TRACK_OPEN \o Attr(LANG_CODE_ATTR, f.lang)
                 \o Attr(NAME_ATTR, f.name) \o Attr(KIND_ATTR, f.kind)
                 \o <<"/", ">">>
      [] f.shape = "alt" ->
             <<"<", "t">> \o Attr(LANG_ATTR, f.lang)
                 \o Attr(NAME_ATTR, f.name) \o <<"/", ">">>
      [] OTHER -> <<"<", "x", "/", ">">>

Fragment(shape, lang, name, kind) ==
    [shape |-> shape, lang |-> lang, name |-> name, kind |-> kind]

TrackFragments ==
    { Fragment("track", LANG_en, <<"E">>, Null),
      Fragment("track", LANG_de, Null, KIND_asr),
      Fragment("track", Null, <<"N">>, Null),
      Fragment("track", <<>>, Null, Null),
      Fragment("alt", LANG_fr, <<"F">>, Null),
      Fragment("alt", <<>>, <<"G">>, Null),
      Fragment("alt", LANG_es, Null, Null),
      Fragment("other", Null, Null, Null) }

ParseTracksInputs ==
    {[frags |-> frags,
      xml |-> Concat([k \in 1..Len(frags) |-> TrackFragment(frags[k])])] :
        frags \in SeqsUpTo(TrackFragments, MaxFrags)}

\* parseTracksXml applied to a track list
ApplyParseTracksXml ==
    /\ fn = "parseTracksXml"
    /\ ~res.done
    /\ res' = Applied(parseTracksXml(arg.xml))
    /\ UNCHANGED <<locals, memo, returned, other, fn, arg, app>>

\* events of a json3 body: without segs, with one seg, with two segs, and
\* with a seg that has no utf8
Json3EventShapes ==
    { <<>>, << <<"a">> >>, << <<"b">>, <<"c">> >>, << Null >> }

Json3Inputs ==
    {[events |-> events] : events \in SeqsUpTo(Json3EventShapes, MaxEvents)}

\* lines 543-550 applied to the events of a json3 body
ApplyJson3Transcript ==
    /\ fn = "Json3Transcript"
    /\ ~res.done
    /\ res' = Applied(Json3Transcript(arg.events))
    /\ UNCHANGED <<locals, memo, returned, other, fn, arg, app>>

\* contents of <text> elements: the contents of the example of the
\* specification, blank contents, an escaped tag and a caption of two lines
TextContents ==
    { <<"H", "i", " ">> \o AMP_ENT \o <<" ", "b", "y", "e">>,
      <<>>,
      <<" ">>,
      <<"t", "h", "e", "r", "e">>,
      LT_ENT \o <<"i">> \o GT_ENT,
      <<"a", "\n", "b">> }

ParseTranscriptInputs ==
    {[contents |-> contents,
      xml |-> Concat([k \in 1..Len(contents) |-> TextElement(contents[k])])] :
        contents \in SeqsUpTo(TextContents, MaxElems)}

\* parseTranscriptXml applied to a body
ApplyParseTranscriptXml ==
    /\ fn = "parseTranscriptXml"
    /\ ~res.done
    /\ res' = Applied(parseTranscriptXml(arg.xml))
    /\ UNCHANGED <<locals, memo, returned, other, fn, arg, app>>

\* pieces of entity references, well formed and not
EntityTokens ==
    { <<"&">>, <<"#">>, <<";">>, <<"&", "#">>, <<"x">>, <<"6", "5">>,
      <<"a", "m", "p", ";">>, <<"l", "t">>,
      AMP_ENT, <<"l", "t", ";">>, <<"#", "6", "5", ";">>,
      <<"&", "#", "6", "5", "6", "0", "1", ";">> }

\* 'a &amp; b &lt;c&gt; &#65;'
ENTITY_EXAMPLE ==
    <<"a", " ">> \o AMP_ENT \o <<" ", "b", " ">> \o LT_ENT \o <<"c">>
        \o GT_ENT \o <<" ", "&", "#", "6", "5", ";">>

DecodeInputs ==
    {[text |-> Concat(tokens)] : tokens \in SeqsUpTo(EntityTokens, MaxTokens)}
        \cup {[text |-> ENTITY_EXAMPLE]}

\* decodeHtmlEntities applied to a string
ApplyDecodeHtmlEntities ==
    /\ fn = "decodeHtmlEntities"
    /\ ~res.done
    /\ res' = Applied(decodeHtmlEntities(arg.text))
    /\ UNCHANGED <<locals, memo, returned, other, fn, arg, app>>

\* the values that are not strings: falsy (0, false, undefined) and truthy
\* (a number, an object, an array)
NonStrings == {[truthy |-> FALSE], [truthy |-> TRUE]}

\* extractVideoId raised an exception
Raised == [done |-> TRUE, raised |-> TRUE]

\* mutant: the earlier revision (lines 7-25), without the try of line 357
ExtractFromValue_NoTry(v) ==
    IF ~v.truthy THEN Applied(Null) ELSE Raised

\* extractVideoId applied to a value that is not a string: line 355 returns
\* null for a falsy one; a truthy one has no match method, line 365 throws
\* a TypeError and the catch of lines 385-387 returns null
ExtractFromValue(v) ==
    IF ~v.truthy THEN Applied(Null)
    ELSE LET thrown == TRUE
         IN  IF thrown THEN Applied(Null) ELSE Raised

\* the URL shapes, as the text before the identifier
UrlShapes ==
    [watch |-> WWW \o YT_WATCH_V,
     short |-> YT_BE,
     embed |-> WWW \o YT_EMBED,
     shorts |-> WWW \o YT_SHORTS,
     watch_extra |-> WWW \o YT_WATCH \o <<"?", "t", "=", "1", "&", "v", "=">>,
     param |-> <<"m", ".">> \o YT_HOST \o <<"/", "?", "v", "=">>]

\* what may follow the identifier
UrlSuffixes ==
    {<<>>, <<"&", "t", "=", "1">>, <<"#", "x">>, <<"&", "v", "=", "z">>}

\* references of every shape, and references of none
ExtractInputs ==
    {[ref |-> scheme \o UrlShapes[shape] \o id \o suffix,
      shape |-> shape, id |-> id] :
        scheme \in {HTTPS, HTTP}, shape \in DOMAIN UrlShapes,
        id \in {ID_ab, ID_cd}, suffix \in UrlSuffixes}
    \cup {[ref |-> ref, shape |-> "none", id |-> Null] :
             ref \in {x \in Refs : extractVideoId(x) = Null}
                     \cup {YT_HOST \o <<"/", "?", "v", "=">> \o ID_ab,
                           HTTPS \o WWW \o YT_HOST \o <<"/", "?", "w", "=">> \o ID_ab,
                           HTTPS \o WWW \o YT_EMBED}}
    \cup {[value |-> v, shape |-> "value", id |-> Null] : v \in NonStrings}

\* extractVideoId applied to a reference
ApplyExtractVideoId ==
    /\ fn = "extractVideoId"
    /\ ~res.done
    /\ res' = IF arg.shape = "value" THEN ExtractFromValue(arg.value)
               ELSE Applied(extractVideoId(arg.ref))
    /\ UNCHANGED <<locals, memo, returned, other, fn, arg, app>>

\* parsed captionTracks entries <<languageCode, baseUrl, kind>>: manual and
\* auto-generated English tracks, other languages, and an auto-caption
\* language code
CaptionTrackCatalog ==
    { <<LANG_en, BASE_URL, Null>>,
      <<LANG_enUS, BASE_URL, KIND_asr>>,
      <<LANG_en, BASE_URL, KIND_asr>>,
      <<LANG_fr, BASE_URL, Null>>,
      <<LANG_es, BASE_URL, KIND_asr>>,
      <<<<"a", ".">> \o LANG_en, BASE_URL, Null>> }

WatchPageTrackInputs ==
    {[captionTracks |-> tracks] :
        tracks \in SeqsUpTo(CaptionTrackCatalog, MaxTracks) \ {<<>>}}

\* lines 643-649 applied to a non-empty captionTracks
ApplyWatchPageTrackIndex ==
    /\ fn = "WatchPageTrackIndex"
    /\ ~res.done
    /\ res' = Applied(WatchPageTrackIndex(arg.captionTracks))
    /\ UNCHANGED <<locals, memo, returned, other, fn, arg, app>>

FnInputs ==
    [extractVideoId |-> ExtractInputs,
     WatchPageTrackIndex |-> WatchPageTrackInputs,
     SelectTrack |-> SelectTrackInputs,
     parseTracksXml |-> ParseTracksInputs,
     Json3Transcript |-> Json3Inputs,
     parseTranscriptXml |-> ParseTranscriptInputs,
     decodeHtmlEntities |-> DecodeInputs]

FnInit ==
    /\ Idle
    /\ memo = {}
    /\ returned = {}
    /\ other = NoCall
    /\ fn \in DOMAIN FnInputs
    /\ arg \in FnInputs[fn]
    /\ res = NotApplied
    /\ AppIdle

FnNext ==
    \/ ApplyExtractVideoId
    \/ ApplyWatchPageTrackIndex
    \/ ApplySelectTrack
    \/ ApplyParseTracksXml
    \/ ApplyJson3Transcript
    \/ ApplyParseTranscriptXml
    \/ ApplyDecodeHtmlEntities

FnSpec == FnInit /\ [][FnNext]_vars

\* ------------------------------------------------------------------------
\* Properties of getVideoTranscript
\* ------------------------------------------------------------------------

\* the suspension points of each adapter: getTranscriptFromTimedTextAPI,
\* getTranscriptFromWatchPage, getTranscriptFromInnertubeAPI
AdapterSteps ==
    << {"tt_list", "tt_json3", "tt_xml"},
       {"wp_page", "wp_track"},
       {"it_page", "it_post"} >>

ReturnedValid(i) == chanState[i] = "returned" /\ IsValid(chanResult[i])

Failed(i) ==
    \/ chanState[i] = "threw"
    \/ chanState[i] = "returned" /\ ~IsValid(chanResult[i])

\* C1: once a channel has returned a valid result, no channel after it in
\* the priority order is invoked in that call.
C1_ShortCircuit ==
    \A i \in Channels :
        ReturnedValid(i) =>
            \A j \in Channels :
                j > i => invoked[j] = 0 /\ chanState[j] = "idle"

C1_Witness ==
    /\ pc = "done"
    /\ ReturnedValid(2)
    /\ invoked = <<1, 1, 0>>

\* C2: when every channel threw or returned a transcript below the
\* threshold, the call returns a failure with a non-empty error message
\* and without a transcript field.
C2_Exhaustion ==
    (pc = "done" /\ \A i \in Channels : Failed(i)) =>
        /\ outcome.success = FALSE
        /\ outcome.error # ""
        /\ "transcript" \notin DOMAIN outcome

C2_Witness ==
    /\ pc = "done"
    /\ \A i \in Channels : chanState[i] = "threw"
    /\ outcome.error = ERR_EXHAUSTED

\* C3: the channels run one at a time in the order TimedText API, Watch
\* Page, Innertube API: the running channel is the one whose adapter the
\* call is suspended in, at most one channel runs, and a channel has
\* started only if the one before it threw or returned an invalid result.
C3_Sequential ==
    /\ \A i \in Channels : chanState[i] = "running" <=> pc \in AdapterSteps[i]
    /\ Cardinality({i \in Channels : chanState[i] = "running"}) <= 1
    /\ \A i \in Channels :
           (i > 1 /\ chanState[i] # "idle") => Failed(i - 1)
    /\ \A i \in Channels : chanState[i] = "idle" <=> invoked[i] = 0

C3_Witness ==
    /\ chanState = <<"threw", "threw", "running">>
    /\ pc = "it_post"

\* the step in which channel i throws leaves the call running
C4_Throws(i) ==
    (chanState[i] = "running" /\ chanState'[i] = "threw") =>
        /\ pc' # "raised"
        /\ i < Len(Methods) =>
               /\ chanState'[i + 1] = "running"
               /\ pc' = Methods[i + 1].entry
               /\ invoked'[i + 1] = 1
               /\ outcome' = NoOutcome
        /\ i = Len(Methods) =>
               /\ pc' = "done"
               /\ outcome' = ExhaustedOutcome

\* C4: when a channel throws, the call does not raise: the next channel is
\* invoked, or after the last channel the call returns the exhausted
\* outcome.
C4_ExceptionsCaught == [][\A i \in Channels : C4_Throws(i)]_vars

C4_Witness ==
    /\ chanState = <<"threw", "threw", "threw">>
    /\ pc = "done"
    /\ "success" \in DOMAIN outcome
    /\ ~outcome.success

\* C5: a caption text is accepted exactly when its trimmed length is at
\* least 20, whichever channel obtained it, and an accepted text makes the
\* call succeed.
C5_UniformThreshold ==
    got.chan # 0 =>
        /\ got.accepted <=> got.length >= 20
        /\ got.accepted => pc = "done" /\ outcome.success

\* C6: the call never raises; once it has returned, its outcome carries a
\* boolean success, and a failure carries a non-empty error message.
C6_NeverRaises ==
    /\ pc # "raised"
    /\ pc = "done" =>
          /\ "success" \in DOMAIN outcome
          /\ outcome.success \in BOOLEAN
          /\ ~outcome.success =>
                 "error" \in DOMAIN outcome /\ outcome.error # ""

C6_Witness ==
    /\ pc = "done"
    /\ url = Null
    /\ outcome = NoIdOutcome(Null)

\* the requests of one call: 8 languages of 3 requests each in the catalog
\* channel, 2 for the title and 2 in each of the other channels
C7_RequestsBounded ==
    /\ nreq["tt"] <= 8 * 3
    /\ nreq["title"] <= 2
    /\ nreq["wp"] <= 2
    /\ nreq["it"] <= 2
    /\ li <= 8

\* C7: when every request is answered or fails, every call returns, and it
\* issues at most 8 * 3 requests in the catalog channel, 2 for the title
\* and 2 in each of the other channels.
C7_Terminates ==
    /\ (pc \notin {"idle", "done"}) ~> (pc = "done")
    /\ []C7_RequestsBounded

C7_Witness ==
    /\ pc = "done"
    /\ nreq["tt"] = 8 * 3
    /\ nreq["title"] = 2
    /\ nreq["wp"] = 2
    /\ nreq["it"] = 2

\* C8: when no identifier is found in the reference string, the call
\* returns a failure at once: no channel is invoked and no request is made.
C8_NoIdNoChannel ==
    (pc # "idle" /\ videoId = Null) =>
        /\ pc = "done"
        /\ outcome.success = FALSE
        /\ outcome.error # ""
        /\ \A i \in Channels : invoked[i] = 0 /\ chanState[i] = "idle"
        /\ \A who \in Requesters : nreq[who] = 0

C8_Witness ==
    /\ pc = "done"
    /\ url = <<"h", "e", "l", "l", "o">>
    /\ videoId = Null
    /\ outcome.error = ERR_NO_ID

\* C9: a failure returned after the identifier was extracted carries the
\* identifier, the title and a non-empty error.
C9_FailureContext ==
    (pc = "done" /\ videoId # Null /\ ~outcome.success) =>
        /\ {"video_id", "title", "error"} \subseteq DOMAIN outcome
        /\ outcome.video_id = videoId
        /\ outcome.title = title
        /\ title # Null
        /\ outcome.error # ""

C9_Witness ==
    /\ pc = "done"
    /\ videoId = ID_cd
    /\ ~outcome.success
    /\ outcome.title = UNKNOWN_TITLE

\* C10: a success outcome names the first channel, in priority order, whose
\* result was valid, and carries the transcript and the language of that
\* result.
C10_MethodNamesChannel ==
    (pc = "done" /\ outcome.success) =>
        \E i \in Channels :
            /\ ReturnedValid(i)
            /\ \A j \in Channels : j < i => Failed(j)
            /\ outcome.method = Methods[i].name
            /\ outcome.transcript = chanResult[i].transcript
            /\ outcome.language = chanResult[i].language

C10_Witness ==
    /\ pc = "done"
    /\ outcome.success
    /\ outcome.method = "Innertube API"
    /\ outcome.language = LANG_unknown
    /\ TrimmedLength(outcome.transcript) = 20

\* C11: every success outcome states whether the selected track was
\* auto-generated: it has an isAutoGenerated field next to the language and
\* the method name.
C11_AutoGeneratedStated ==
    (pc = "done" /\ "success" \in DOMAIN outcome /\ outcome.success) =>
        {"isAutoGenerated", "language", "method"} \subseteq DOMAIN outcome

\* C13: each channel is invoked at most once in a call, a channel that has
\* finished was invoked exactly once, and when the last channel has failed
\* the call has returned the exhausted outcome with every channel invoked
\* once.
C13_AtMostOnce ==
    /\ \A i \in Channels : invoked[i] <= 1
    /\ \A i \in Channels :
           chanState[i] \in {"threw", "returned"} => invoked[i] = 1
    /\ Failed(Len(Methods)) =>
           /\ pc = "done"
           /\ outcome = ExhaustedOutcome
           /\ \A i \in Channels : invoked[i] = 1

C13_Witness ==
    /\ pc = "done"
    /\ Failed(Len(Methods))
    /\ chanState[1] = "threw"
    /\ nreq["tt"] = Len(Languages)
    /\ invoked = <<1, 1, 1>>

\* ------------------------------------------------------------------------
\* Properties of the track selection (lines 500-533)
\* ------------------------------------------------------------------------

\* a track is auto-generated when its kind is the speech-recognition
\* marker or its display name says so
C15_IsAutoGenerated(track) == track[3] = KIND_asr \/ AutoNameMatch(track)

C15_HasBoth(tracks) ==
    /\ \E k \in 1..Len(tracks) :
           tracks[k][1] = LANG_en /\ ~C15_IsAutoGenerated(tracks[k])
    /\ \E k \in 1..Len(tracks) :
           tracks[k][1] = LANG_en /\ C15_IsAutoGenerated(tracks[k])

\* C15: from a catalog that holds a manual 'en' track and an auto-generated
\* 'en' track, in either order, the candidate language 'en' selects the
\* manual track.
C15_ManualPreferred ==
    (fn = "SelectTrack" /\ res.done /\ arg.lang = LANG_en
        /\ C15_HasBoth(arg.tracks)) =>
        /\ arg.tracks[res.value][1] = LANG_en
        /\ ~C15_IsAutoGenerated(arg.tracks[res.value])

\* no track matches the candidate language by its language code
C16_NoCodeMatch(tracks, lang) ==
    lang = Null \/ \A k \in 1..Len(tracks) : ~LanguageMatch(tracks[k], lang)

\* for the candidate 'auto', no track is auto-generated by its display name
C16_NoAutoMatch(tracks, lang) ==
    lang = LANG_auto => \A k \in 1..Len(tracks) : ~AutoNameMatch(tracks[k])

C16_NoEnglish(tracks) ==
    \A k \in 1..Len(tracks) : tracks[k][1] \notin EnglishFamily

\* C16 as stated: the selection yields one track of the catalog, and the
\* first one when no track matches the candidate language or the English
\* family.
C16_FirstWithoutMatch ==
    (fn = "SelectTrack" /\ res.done) =>
        /\ res.value \in 1..Len(arg.tracks)
        /\ (C16_NoCodeMatch(arg.tracks, arg.lang)
               /\ C16_NoEnglish(arg.tracks)) => res.value = 1

\* C16: the selection yields one track of the catalog, and the first one
\* when no track matches the candidate language (by its language code or,
\* for the candidate 'auto', by a display name that says auto-generated)
\* or the English family.
C16_SelectionTotal ==
    (fn = "SelectTrack" /\ res.done) =>
        /\ res.value \in 1..Len(arg.tracks)
        /\ (C16_NoCodeMatch(arg.tracks, arg.lang)
               /\ C16_NoAutoMatch(arg.tracks, arg.lang)
               /\ C16_NoEnglish(arg.tracks)) => res.value = 1

C16_Witness ==
    /\ fn = "SelectTrack"
    /\ res.done
    /\ arg.lang = LANG_auto
    /\ Len(arg.tracks) = 2
    /\ arg.tracks[1][1] = LANG_fr
    /\ arg.tracks[2][1] = LANG_de \o <<"-", "C", "H">>
    /\ res.value = 1

\* ------------------------------------------------------------------------
\* Properties of parseTracksXml
\* ------------------------------------------------------------------------

\* the tracks that the elements of one shape stand for: an element without
\* a language code, or of the alternative format without a name, stands
\* for none
RECURSIVE C17_TracksOf(_, _)
C17_TracksOf(frags, shape) ==
    IF frags = <<>> THEN <<>>
    ELSE LET f == Head(frags)
             kept == /\ f.shape = shape
                     /\ f.lang # Null
                     /\ f.lang # <<>>
                     /\ shape = "alt" => f.name # Null
             kind == IF shape = "alt" THEN <<>> ELSE OrEmpty(f.kind)
         IN (IF kept THEN << <<f.lang, OrEmpty(f.name), kind>> >> ELSE <<>>)
            \o C17_TracksOf(Tail(frags), shape)

C17_Expected(frags) ==
    IF C17_TracksOf(frags, "track") # <<>>
    THEN C17_TracksOf(frags, "track")
    ELSE C17_TracksOf(frags, "alt")

\* C17: every track parseTracksXml returns has a non-empty language code;
\* the tracks are those of the <track> elements that have a language code,
\* or, only when there is none, those of the alternative format that have
\* one; the empty input yields the empty sequence.
C17_LanguageCodes ==
    (fn = "parseTracksXml" /\ res.done) =>
        /\ \A k \in 1..Len(res.value) :
               res.value[k][1] # Null /\ res.value[k][1] # <<>>
        /\ res.value = C17_Expected(arg.frags)
        /\ arg.xml = <<>> => res.value = <<>>

C17_Witness ==
    /\ fn = "parseTracksXml"
    /\ res.done
    /\ Len(arg.frags) = 2
    /\ arg.frags[1] = Fragment("track", <<>>, Null, Null)
    /\ arg.frags[2] = Fragment("alt", LANG_fr, <<"F">>, Null)
    /\ res.value = << <<LANG_fr, <<"F">>, <<>>>> >>

\* ------------------------------------------------------------------------
\* Properties of the json3 parsing (lines 542-550)
\* ------------------------------------------------------------------------

\* the texts of the segs of the events, in payload order, each with the
\* separator that precedes it: none before the first seg of the first event
\* that has segs, one space before every other seg
RECURSIVE C18_Pieces(_, _, _, _)
C18_Pieces(events, e, k, first) ==
    IF e > Len(events) THEN <<>>
    ELSE IF k > Len(events[e]) THEN C18_Pieces(events, e + 1, 1, first)
    ELSE (IF first THEN <<>> ELSE <<" ">>)
         \o OrEmpty(events[e][k])
         \o C18_Pieces(events, e, k + 1, FALSE)

\* C18: the json3 parsing yields the texts of the segs in payload order,
\* one space between two segs of an event and between two events; an event
\* without segs adds neither text nor a space.
C18_PayloadOrder ==
    (fn = "Json3Transcript" /\ res.done) =>
        res.value = C18_Pieces(arg.events, 1, 1, TRUE)

C18_Witness ==
    /\ fn = "Json3Transcript"
    /\ res.done
    /\ arg.events = << << <<"b">>, <<"c">> >>, <<>>, << <<"a">> >> >>
    /\ res.value = <<"b", " ", "c", " ", "a">>

\* ------------------------------------------------------------------------
\* Properties of parseTranscriptXml
\* ------------------------------------------------------------------------

\* the decoded contents that are not blank, in document order
RECURSIVE C19_Fragments(_)
C19_Fragments(contents) ==
    IF contents = <<>> THEN <<>>
    ELSE LET text == decodeHtmlEntities(Head(contents))
         IN (IF Trim(text) # <<>> THEN <<text>> ELSE <<>>)
            \o C19_Fragments(Tail(contents))

\* C19: parseTranscriptXml yields the decoded contents of the <text>
\* elements in document order, one space between two of them; an element
\* whose decoded content is blank adds neither text nor a space.
C19_DecodedContents ==
    (fn = "parseTranscriptXml" /\ res.done) =>
        res.value = JoinSpace(C19_Fragments(arg.contents))

\* ------------------------------------------------------------------------
\* Properties of decodeHtmlEntities
\* ------------------------------------------------------------------------

\* the string holds one of the named entities
C20_HasNamedEntity(s) ==
    \E k \in 1..Len(Entities) : Includes(s, Entities[k][1])

\* the string holds a well-formed decimal reference: &#, digits, ;
C20_HasDecimalReference(s) ==
    \E i \in 1..Len(s), j \in 1..Len(s) :
        /\ j >= i + 3
        /\ s[i] = "&"
        /\ s[i + 1] = "#"
        /\ s[j] = ";"
        /\ \A k \in (i + 2)..(j - 1) : IsDigit(s[k])

\* C20: decodeHtmlEntities returns a string that holds no named entity and
\* no well-formed decimal reference as it is; a malformed numeric reference
\* stays literal text.
C20_Unchanged ==
    (fn = "decodeHtmlEntities" /\ res.done
        /\ ~C20_HasNamedEntity(arg.text)
        /\ ~C20_HasDecimalReference(arg.text)) =>
        res.value = arg.text

C20_Witness ==
    /\ fn = "decodeHtmlEntities"
    /\ res.done
    /\ arg.text = <<"&", "#", "x", ";">>
    /\ res.value = <<"&", "#", "x", ";">>

\* C12: against a deterministic transport, a call that returns with a
\* reference returns the outcome every earlier call with that reference
\* returned; the client screen nonce, made of the time and a random string,
\* does not show in it.
C12_Idempotent ==
    \A r \in returned : (pc = "done" /\ r.url = url) => r.outcome = outcome

\* C12 witness: a second call with the same reference has returned a
\* transcript of the internal-API channel, which draws a nonce per call.
C12_Witness ==
    /\ pc = "done"
    /\ outcome.success
    /\ outcome.method = Methods[Len(Methods)].name
    /\ [url |-> url, outcome |-> outcome, again |-> TRUE] \in returned

\* C14: two calls interleaved at their awaits return, for one reference and
\* one transport, the outcome a call running alone returns: the outcomes
\* returned with one reference are all the same.
C14_Independent ==
    \A r1, r2 \in returned : r1.url = r2.url => r1.outcome = r2.outcome

\* C14 witness: a call returns a transcript while the other call, with the
\* same reference, is suspended at a request of a later language or channel.
C14_Witness ==
    /\ pc = "done"
    /\ outcome.success
    /\ other.pc \notin {"idle", "done"}
    /\ other.url = url
    /\ [url |-> url, outcome |-> outcome, again |-> TRUE] \in returned

\* the number a run of decimal digits writes
RECURSIVE C21_Value(_, _)
C21_Value(digs, acc) ==
    IF digs = <<>> THEN acc
    ELSE C21_Value(Tail(digs), acc * 10 + DigitValue(Head(digs)))

\* a character outside the basic plane, which no single code unit is
C21_Astral == "U+10000.."

\* the character a decimal reference denotes
C21_Denoted(digs) ==
    IF C21_Value(digs, 0) < 65536 THEN FromCharCode(C21_Value(digs, 0))
    ELSE C21_Astral

\* every entity and decimal reference of s replaced, from left to right,
\* by the character it denotes
RECURSIVE C21_Decode(_)
C21_Decode(s) ==
    IF s = <<>> THEN <<>>
    ELSE LET named == {k \in 1..Len(Entities) : MatchAt(s, 1, Entities[k][1])}
             digs == DigitRun(s, 3)
         IN  IF named # {}
             THEN Entities[Min(named)][2]
                  \o C21_Decode(SubSeq(s, Len(Entities[Min(named)][1]) + 1,
                                       Len(s)))
             ELSE IF /\ MatchAt(s, 1, <<"&", "#">>)
                     /\ digs # <<>>
                     /\ MatchAt(s, 3 + Len(digs), <<";">>)
                  THEN <<C21_Denoted(digs)>>
                       \o C21_Decode(SubSeq(s, 4 + Len(digs), Len(s)))
             ELSE <<Head(s)>> \o C21_Decode(Tail(s))

\* C21: decodeHtmlEntities returns its input with every named entity and
\* every decimal reference replaced by the character it denotes (stated for
\* the inputs whose replaced text holds no entity again).
C21_EveryOccurrence ==
    (fn = "decodeHtmlEntities" /\ res.done
        /\ ~C20_HasNamedEntity(C21_Decode(arg.text))
        /\ ~C20_HasDecimalReference(C21_Decode(arg.text))) =>
        res.value = C21_Decode(arg.text)

\* the example of the claim: 'a &amp; b &lt;c&gt; &#65;' gives 'a & b <c> A'
C21_Example ==
    (fn = "decodeHtmlEntities" /\ res.done /\ arg.text = ENTITY_EXAMPLE) =>
        res.value = <<"a", " ", "&", " ", "b", " ", "<", "c", ">", " ", "A">>

\* C21 holds of the decimal references below 65536
C21_BasicPlane ==
    (fn = "decodeHtmlEntities" /\ res.done
        /\ C21_Astral \notin {C21_Decode(arg.text)[i] :
                                  i \in 1..Len(C21_Decode(arg.text))}
        /\ ~C20_HasNamedEntity(C21_Decode(arg.text))
        /\ ~C20_HasDecimalReference(C21_Decode(arg.text))) =>
        res.value = C21_Decode(arg.text)

\* C30: the text that decoding &amp; produces is not decoded again: an
\* input made of &amp; and text without another ampersand decodes to an
\* ampersand and that text.
C30_SinglePass ==
    (fn = "decodeHtmlEntities" /\ res.done
        /\ StartsWith(arg.text, AMP_ENT)
        /\ \A i \in (Len(AMP_ENT) + 1)..Len(arg.text) : arg.text[i] # "&") =>
        res.value = <<"&">> \o SubSeq(arg.text, Len(AMP_ENT) + 1, Len(arg.text))

\* ------------------------------------------------------------------------
\* Properties of extractVideoId
\* ------------------------------------------------------------------------

C23_TimedTextRequests == {"tt_list", "tt_json3", "tt_xml"}

C23_Step ==
    /\ (chanState[1] = "running" /\ chanState'[1] = "running") =>
           /\ li' \in {li, li + 1}
           /\ pc' \in C23_TimedTextRequests
    /\ (chanState[1] = "running" /\ got'.chan = 1 /\ got'.accepted) =>
           /\ chanState'[1] = "returned"
           /\ chanResult'[1].language = sel
           /\ pc' \notin C23_TimedTextRequests
    /\ chanState[1] = "returned" => nreq'["tt"] \in {nreq["tt"], 0}

C24_Step ==
    /\ (pc' = "tt_json3" /\ pc # "tt_json3") => pc = "tt_list"
    /\ (pc' = "tt_xml" /\ pc # "tt_xml") =>
           /\ pc = "tt_json3"
           /\ sel' = sel
           /\ ~(got'.chan = 1 /\ got'.accepted)

C25_Step ==
    (chanState[1] = "running" /\ chanState'[1] = "threw") =>
        /\ li = Len(Languages)
        /\ nreq'["tt"] >= Len(Languages)
        /\ pc' = Methods[2].entry

\* C25: channel 1 fails only at its last language, after at least one
\* request for every language of its list, and the loop of the call then
\* invokes channel 2.
C25_ExhaustsLanguages == [][C25_Step]_vars

\* C25 witness: channel 1 failed after attempts that got as far as the
\* json3 or XML request.
C25_Witness ==
    /\ chanState[1] = "threw"
    /\ nreq["tt"] > Len(Languages)

\* C26: channel 1 fails only at the answer of a direct auto-caption
\* request, made after the last language.
C26_DirectAutoCaption ==
    [][(chanState[1] = "running" /\ chanState'[1] = "threw") =>
           pc = "tt_direct"]_vars

\* C28: the step is the answer of a watch page without key or version, or
\* of a get_transcript response without actions or without a renderer at a
\* known location
C28_PageWithoutKey ==
    \E ans \in InnertubePageAnswers, n \in Nonces :
        (~ans.hasKey \/ ~ans.hasVersion) /\ ITPageOn(ans, n)

C28_ResponseWithoutRenderer ==
    \E ans \in InnertubeResponses :
        /\ \/ ~ans.hasActions
           \/ ans.actions = <<>>
           \/ ~HasCaptionRenderer(ans.actions[1])
        /\ ITPostOn(ans)

C28_Step ==
    /\ C28_PageWithoutKey => nreq'["it"] = 1 /\ pc' # "it_post"
    /\ (C28_PageWithoutKey \/ C28_ResponseWithoutRenderer) =>
           /\ chanState' = [chanState EXCEPT ![3] = "threw"]
           /\ chanResult' = chanResult
           /\ pc' = "done"
           /\ outcome' = ExhaustedOutcome

\* C28: a watch page without key or version, and a get_transcript response
\* without actions or without a renderer at a known location, make channel
\* 3 throw and nothing else: the call returns the exhausted outcome, and
\* without key or version no get_transcript request is sent.
C28_ShapeFailure == [][C28_Step]_vars

\* C28 witness: channel 3 threw at its first request.
C28_Witness ==
    /\ pc = "done"
    /\ chanState[3] = "threw"
    /\ nreq["it"] = 1
    /\ outcome = ExhaustedOutcome

\* C29: when the loop over the channels has started, the title is a
\* non-empty string.
C29_TitleNonEmpty ==
    chanState[1] # "idle" => title # Null /\ title # <<>>

\* the track is auto-generated: by its kind, or by an auto-caption
\* language code
C27_IsAuto(track) ==
    track[3] = KIND_asr \/ StartsWith(track[1], <<"a", ".">>)

C27_English(track) ==
    track[1] \in EnglishFamily
    \/ (StartsWith(track[1], <<"a", ".">>)
           /\ SubSeq(track[1], 3, Len(track[1])) \in EnglishFamily)

C27_Manual(tracks) ==
    {k \in 1..Len(tracks) : C27_English(tracks[k]) /\ ~C27_IsAuto(tracks[k])}

C27_Auto(tracks) ==
    {k \in 1..Len(tracks) : C27_English(tracks[k]) /\ C27_IsAuto(tracks[k])}

\* C27: channel 2 selects a manual English-family track when there is one,
\* else an auto-generated English-family track when there is one, else the
\* first track.
C27_ManualFirst ==
    (fn = "WatchPageTrackIndex" /\ res.done) =>
        LET tracks == arg.captionTracks
        IN  /\ C27_Manual(tracks) # {} => res.value \in C27_Manual(tracks)
            /\ (C27_Manual(tracks) = {} /\ C27_Auto(tracks) # {}) =>
                   res.value \in C27_Auto(tracks)
            /\ (C27_Manual(tracks) = {} /\ C27_Auto(tracks) = {}) =>
                   res.value = 1

\* ------------------------------------------------------------------------
\* The job store (src/utils/youtube.js, lines 956-1049)
\* ------------------------------------------------------------------------

\* lines 988-1000: the job createJob builds. createdAt and updatedAt are
\* left out, nothing reads them; progressStage is not set yet.
NewJob(videoUrl) ==
    [exists |-> TRUE, status |-> "pending", videoUrl |-> videoUrl,
     videoId |-> Null, title |-> NoValue, transcript |-> NoValue,
     summary |-> NoValue, language |-> NoValue, error |-> NoValue,
     method |-> NoValue, progressStage |-> NoValue]

\* jobStore.has(jobId)
HasJob(store, jobId) == jobId \in DOMAIN store /\ store[jobId].exists

\* lines 1016-1018
getJob(store, jobId) ==
    IF HasJob(store, jobId) THEN store[jobId] ELSE Null

\* the id generateJobId returns (lines 978-981): one no job has had
FreshIds(store) == {j \in DOMAIN store : store[j] = Unused}

generateJobId(store) == CHOOSE j \in FreshIds(store) :
                            \A k \in FreshIds(store) : j <= k

\* lines 984-1003: the map after createJob
createJob(store, videoUrl) ==
    [store EXCEPT ![generateJobId(store)] = NewJob(videoUrl)]

\* the job with the updates spread over it (lines 1027-1031)
Spread(job, updates) ==
    [f \in DOMAIN job |->
        IF f \in DOMAIN updates THEN updates[f] ELSE job[f]]

\* updateJob without the has() test: it writes the entry of an absent id
updateJob_NoHas(store, jobId, updates) ==
    [store EXCEPT ![jobId] =
        Spread(IF store[jobId].exists THEN store[jobId] ELSE NewJob(Null),
               updates)]

\* lines 1021-1035: the map after updateJob
updateJob(store, jobId, updates) ==
    IF ~HasJob(store, jobId)
    THEN store
    ELSE [store EXCEPT ![jobId] = Spread(store[jobId], updates)]

\* what updateJob returns: null for an absent id, else the updated job
updateJobReturns(store, jobId, updates) ==
    getJob(updateJob(store, jobId, updates), jobId)

\* lines 1038-1049: the map after setJobStatus; the error is written only
\* when one is given
setJobStatus(store, jobId, status, error) ==
    IF ~HasJob(store, jobId)
    THEN store
    ELSE updateJob(store, jobId,
                   IF error # NoValue /\ error # ""
                   THEN [status |-> status, error |-> error]
                   ELSE [status |-> status])

\* lines 1005-1010: the expiry timer of a job fires
ExpireJob(store, jobId) ==
    IF HasJob(store, jobId)
    THEN [store EXCEPT ![jobId] = Deleted]
    ELSE store

\* ------------------------------------------------------------------------
\* The job API: create-job, process-job and job-status
\* ------------------------------------------------------------------------

\* the urls of the bodies create-job receives (Null: the body has none)
CreateUrls ==
    {Null, <<>>, <<"h", "e", "l", "l", "o">>,
     HTTPS \o WWW \o YT_WATCH_V \o ID_ab}

\* the requests create-job receives: the method and the url of the body
CreateRequests ==
    {[method |-> m, url |-> u] : m \in {"POST", "GET"}, u \in CreateUrls}

\* create-job.js, line 18: extractVideoId on each of these urls
VideoIdOf == [u \in CreateUrls |-> extractVideoId(u)]

\* create-job.js, lines 6-24: the request is turned down
CreateRejected(req) ==
    \/ req.method # "POST"
    \/ req.url = Null \/ req.url = <<>>
    \/ VideoIdOf[req.url] = Null

\* create-job.js, lines 6-24 and 44-49: the response
CreateResponse(store, req) ==
    IF req.method # "POST"
    THEN [endpoint |-> "create-job", code |-> 405,
          body |-> [error |-> "Method not allowed"]]
    ELSE IF req.url = Null \/ req.url = <<>>
    THEN [endpoint |-> "create-job", code |-> 400,
          body |-> [error |-> "URL is required"]]
    ELSE IF VideoIdOf[req.url] = Null
    THEN [endpoint |-> "create-job", code |-> 400,
          body |-> [success |-> FALSE,
                    error |-> "Invalid YouTube URL format"]]
    ELSE [endpoint |-> "create-job", code |-> 200,
          body |-> [success |-> TRUE, jobId |-> generateJobId(store),
                    videoId |-> VideoIdOf[req.url],
                    status |-> "pending"]]

\* create-job.js without the test of the video id (lines 19-24)
CreateJobOn_NoIdCheck(req) ==
    /\ req.method = "POST" /\ req.url # Null /\ req.url # <<>>
    /\ FreshIds(jobStore) # {}
    /\ LET jobId == generateJobId(jobStore)
       IN  /\ jobStore' = updateJob(createJob(jobStore, req.url), jobId,
                              [videoId |-> VideoIdOf[req.url],
                               status |-> "pending"])
           /\ net' = [net EXCEPT ![jobId] = @ + 1]
           /\ reply' = [endpoint |-> "create-job", code |-> 200,
                        body |-> [success |-> TRUE, jobId |-> jobId,
                                  videoId |-> VideoIdOf[req.url],
                                  status |-> "pending"]]
    /\ UNCHANGED runs

\* create-job.js, lines 5-49: the handler. A request that passes the tests
\* creates the job, sets its video id, sends the process-job request without
\* waiting for it and answers 200.
CreateJobOn(req) ==
    /\ IF CreateRejected(req)
       THEN /\ reply' = CreateResponse(jobStore, req)
            /\ UNCHANGED <<jobStore, net>>
       ELSE /\ FreshIds(jobStore) # {}
            /\ reply' = CreateResponse(jobStore, req)
            /\ LET jobId == generateJobId(jobStore)
               IN  /\ jobStore' =
                          updateJob(createJob(jobStore, req.url), jobId,
                                    [videoId |-> VideoIdOf[req.url],
                                     status |-> "pending"])
                   /\ net' = [net EXCEPT ![jobId] = @ + 1]
    /\ UNCHANGED runs

\* the variables of the transcript retrieval, of the pure functions, of the
\* page and of generateSummary
notApi == <<locals, memo, returned, other, fn, arg, res, client, gs>>

CreateJob ==
    /\ \E req \in CreateRequests : CreateJobOn(req)
    /\ UNCHANGED notApi

\* the process-job requests under way for the ids of a set
RECURSIVE UnderWay(_)
UnderWay(ids) ==
    IF ids = {}
    THEN 0
    ELSE LET j == CHOOSE k \in ids : TRUE
         IN  net[j] + UnderWay(ids \ {j})

\* the process-job requests under way, those that started a processJob
\* call, and those create-job can still send
Sent ==
    UnderWay(JobIds) + Cardinality(runs) + Cardinality(FreshIds(jobStore))

\* a client other than create-job sends POST /api/process-job?jobId=...
PostProcessJob ==
    /\ \E jobId \in JobIds :
          /\ Sent < MaxRuns
          /\ net' = [net EXCEPT ![jobId] = @ + 1]
    /\ UNCHANGED <<jobStore, runs, reply, notApi>>

\* create-job.js, lines 39-41: a process-job request fails on its way (the
\* catch only logs), or its handler is never run
TriggerFails ==
    /\ \E jobId \in JobIds :
          /\ net[jobId] > 0
          /\ net' = [net EXCEPT ![jobId] = @ - 1]
    /\ UNCHANGED <<jobStore, runs, reply, notApi>>

\* process-job.js, lines 8-16: a request with another method, or without a
\* job id, is turned down
ProcessJobRejected ==
    /\ \E code \in {405, 400} :
          reply' = [endpoint |-> "process-job", code |-> code,
                    body |-> [error |-> IF code = 405
                                        THEN "Method not allowed"
                                        ELSE "Job ID is required"]]
    /\ UNCHANGED <<jobStore, runs, net, notApi>>

\* processJob, lines 51-57: the job store when processJob reaches its first
\* await
StartProcessing(store, jobId) ==
    updateJob(
        updateJob(setJobStatus(store, jobId, "processing", NoValue), jobId,
                  [progressStage |-> "Retrieving video information"]),
        jobId, [progressStage |-> "Getting video title"])

\* process-job.js, lines 18-40 and 46-57: a process-job request reaches its
\* handler. An absent job answers 404; else the handler answers 200 and
\* calls processJob, which runs up to the await of getVideoTitle.
ProcessJobOn(jobId) ==
    /\ net[jobId] > 0
    /\ net' = [net EXCEPT ![jobId] = @ - 1]
    /\ IF ~HasJob(jobStore, jobId)
       THEN /\ reply' = [endpoint |-> "process-job", code |-> 404,
                         body |-> [success |-> FALSE,
                                   error |-> "Job not found"]]
            /\ UNCHANGED <<jobStore, runs>>
       ELSE /\ reply' = [endpoint |-> "process-job", code |-> 200,
                         body |-> [success |-> TRUE, jobId |-> jobId]]
            /\ jobStore' = StartProcessing(jobStore, jobId)
            /\ runs' = runs \cup
                   {[job |-> jobId,
                     n |-> 1 + Cardinality({r \in runs : r.job = jobId}),
                     pc |-> "title"]}

ProcessJob ==
    /\ \E jobId \in JobIds : ProcessJobOn(jobId)
    /\ UNCHANGED notApi

\* the run at its next await
Moved(run, next) == (runs \ {run}) \cup {[run EXCEPT !.pc = next]}

\* what getVideoTitle resolves with
JobTitles == {"Unknown Title"}

\* processJob, lines 57-62: getVideoTitle has answered
JobTitleOn(run, t) ==
    /\ run \in runs /\ run.pc = "title"
    /\ jobStore' = updateJob(updateJob(jobStore, run.job, [title |-> t]),
                             run.job,
                             [progressStage |-> "Retrieving transcript"])
    /\ runs' = Moved(run, "transcript")
    /\ UNCHANGED <<net, reply>>

JobTitle ==
    /\ \E run \in runs, t \in JobTitles : JobTitleOn(run, t)
    /\ UNCHANGED notApi

\* what getVideoTranscript resolves with for the url of a job: a transcript,
\* or a failure with or without a message
TranscriptResults ==
    { [success |-> TRUE, transcript |-> "hello world", language |-> "en",
       method |-> "TimedText API", error |-> NoValue],
      [success |-> FALSE, transcript |-> NoValue, language |-> NoValue,
       method |-> NoValue, error |-> ERR_EXHAUSTED],
      [success |-> FALSE, transcript |-> NoValue, language |-> NoValue,
       method |-> NoValue, error |-> NoValue] }

\* the message of the error thrown at line 66
TranscriptError(result) ==
    IF result.error # NoValue /\ result.error # ""
    THEN result.error
    ELSE "Failed to retrieve transcript"

\* processJob, lines 62-78 and 98-101, and the catch of the handler (lines
\* 37-40): getVideoTranscript has answered. A failure is thrown, caught and
\* recorded, and processJob ends.
JobTranscriptOn(run, result) ==
    /\ run \in runs /\ run.pc = "transcript"
    /\ IF ~result.success
       THEN /\ jobStore' =
                   setJobStatus(
                       setJobStatus(jobStore, run.job, "failed",
                                    TranscriptError(result)),
                       run.job, "failed", TranscriptError(result))
            /\ runs' = Moved(run, "done")
       ELSE /\ jobStore' =
                   updateJob(jobStore, run.job,
                             [transcript |-> result.transcript,
                              language |-> result.language,
                              method |-> result.method,
                              progressStage |-> "Generating summary"])
            /\ runs' = Moved(run, "summary")
    /\ UNCHANGED <<net, reply>>

JobTranscript ==
    /\ \E run \in runs, result \in TranscriptResults :
          JobTranscriptOn(run, result)
    /\ UNCHANGED notApi

\* what generateSummary resolves with
SummaryResults ==
    { [summary |-> "a summary", error |-> NoValue],
      [summary |-> NoValue, error |-> "OpenAI returned empty summary"] }

\* processJob, lines 78-97: generateSummary has answered; processJob ends.
\* The error of a failed summary is prefixed by "Summary generation
\* failed: "; the model keeps the prefix only.
JobSummaryOn(run, result) ==
    /\ run \in runs /\ run.pc = "summary"
    /\ jobStore' =
           IF result.error # NoValue /\ result.error # ""
           THEN updateJob(jobStore, run.job,
                    [error |-> "Summary generation failed",
                     status |-> "completed"])
           ELSE updateJob(jobStore, run.job,
                    [summary |-> result.summary, status |-> "completed"])
    /\ runs' = Moved(run, "done")
    /\ UNCHANGED <<net, reply>>

JobSummary ==
    /\ \E run \in runs, result \in SummaryResults : JobSummaryOn(run, result)
    /\ UNCHANGED notApi

\* youtube.js, lines 1005-1010: the expiry timer of a job fires, 30 minutes
\* after createJob
Expire ==
    /\ \E jobId \in JobIds :
          /\ HasJob(jobStore, jobId)
          /\ jobStore' = ExpireJob(jobStore, jobId)
    /\ UNCHANGED <<runs, net, reply, notApi>>

\* job-status with the transcript in every response
StatusResponse_Always(store, jobId) ==
    IF ~HasJob(store, jobId)
    THEN [endpoint |-> "job-status", code |-> 404,
          body |-> [success |-> FALSE, error |-> "Job not found"]]
    ELSE [endpoint |-> "job-status", code |-> 200,
          body |-> [success |-> TRUE, jobId |-> jobId,
                    status |-> store[jobId].status,
                    transcript |-> store[jobId].transcript]]

\* a request without a job id
NoJobId == 0

\* job-status.js, lines 97-146: the response to a request for a job id.
\* updatedAt is left out.
StatusResponse(store, jobId) ==
    IF jobId = NoJobId
    THEN [endpoint |-> "job-status", code |-> 400,
          body |-> [error |-> "Job ID is required"]]
    ELSE IF ~HasJob(store, jobId)
    THEN [endpoint |-> "job-status", code |-> 404,
          body |-> [success |-> FALSE, error |-> "Job not found"]]
    ELSE LET job == store[jobId]
             base == [success |-> TRUE, jobId |-> jobId,
                      status |-> job.status, videoId |-> job.videoId,
                      title |-> job.title]
         IN  [endpoint |-> "job-status", code |-> 200,
              body |->
                 IF job.status = "failed"
                 THEN base @@ [error |-> job.error]
                 ELSE IF job.status = "completed"
                 THEN base @@ [summary |-> job.summary,
                               transcript |-> job.transcript,
                               language |-> job.language,
                               method |-> job.method]
                 ELSE IF job.status = "processing"
                 THEN base @@
                      [progressStage |->
                          IF job.progressStage # NoValue
                          THEN job.progressStage
                          ELSE "Retrieving transcript"] @@
                      (IF job.error # NoValue
                       THEN [progressError |-> job.error]
                       ELSE [success |-> TRUE])
                 ELSE base]

\* a job-status request is answered
JobStatus ==
    /\ \E jobId \in JobIds \cup {MaxJobs + 1, NoJobId} :
          reply' = StatusResponse(jobStore, jobId)
    /\ UNCHANGED <<jobStore, runs, net, notApi>>

JobNext ==
    \/ CreateJob
    \/ PostProcessJob
    \/ TriggerFails
    \/ ProcessJobRejected
    \/ ProcessJob
    \/ JobTitle
    \/ JobTranscript
    \/ JobSummary
    \/ Expire
    \/ JobStatus

JobSpec == Init /\ [][JobNext]_vars

\* ------------------------------------------------------------------------
\* Claims on the job API
\* ------------------------------------------------------------------------

C35_Step ==
    /\ \A j \in JobIds :
          HasJob(jobStore', j) => jobStore'[j].videoId # Null
    /\ \A req \in CreateRequests :
          CreateJobOn(req) =>
             /\ (\/ req.method # "POST"
                 \/ req.url \in {Null, <<>>}
                 \/ VideoIdOf[req.url] = Null) =>
                    /\ reply'.code # 200
                    /\ UNCHANGED <<jobStore, net, runs>>
             /\ reply'.code = 200 =>
                    LET j == reply'.body.jobId
                    IN  /\ ~HasJob(jobStore, j) /\ HasJob(jobStore', j)
                        /\ jobStore'[j].videoId = VideoIdOf[req.url]
                        /\ jobStore'[j].videoId # Null
                        /\ jobStore'[j].status = "pending"
                        /\ \A k \in JobIds \ {j} :
                              jobStore'[k] = jobStore[k]

\* C35: a create-job request that is turned down (method other than POST,
\* url missing, url without a video id) leaves the job store as it was and
\* sends no process-job request; the job a successful create-job adds has a
\* non-null videoId and status 'pending', and no job of the store has a null
\* videoId.
C35_CreateJobFrame == [][C35_Step]_vars

\* a create-job request was turned down while a job created before it is
\* still pending
C35_Witness ==
    /\ reply.endpoint = "create-job" /\ reply.code = 400
    /\ \E j \in JobIds :
          HasJob(jobStore, j) /\ jobStore[j].status = "pending"

\* the updates processJob passes to updateJob
C36_Updates ==
    { [progressStage |-> "Retrieving transcript"],
      [title |-> "Unknown Title"],
      [summary |-> "a summary", status |-> "completed"] }

C36_Step ==
    /\ \A j \in JobIds :
          jobStore[j] = Deleted => jobStore'[j] = Deleted
    /\ \A j \in JobIds \cup {MaxJobs + 1} :
          ~HasJob(jobStore, j) =>
             /\ \A u \in C36_Updates :
                   /\ updateJob(jobStore, j, u) = jobStore
                   /\ updateJobReturns(jobStore, j, u) = Null
             /\ \A st \in {"processing", "failed"},
                   e \in {NoValue, ERR_EXHAUSTED} :
                   setJobStatus(jobStore, j, st, e) = jobStore
    /\ \A run \in runs :
          ~HasJob(jobStore, run.job) =>
             /\ \A t \in JobTitles :
                   JobTitleOn(run, t) => jobStore' = jobStore
             /\ \A result \in TranscriptResults :
                   JobTranscriptOn(run, result) => jobStore' = jobStore
             /\ \A result \in SummaryResults :
                   JobSummaryOn(run, result) => jobStore' = jobStore

\* C36: a job whose expiry timer has fired is not in the store and never
\* comes back; updateJob and setJobStatus on an id that is not in the store
\* return null and leave the store as it was, so a step of a processJob call
\* whose job has expired changes nothing.
C36_ExpiredStaysRemoved == [][C36_Step]_vars

\* a processJob call has ended and its job has expired
C36_Witness ==
    \E run \in runs : run.pc = "done" /\ jobStore[run.job] = Deleted

C34_Exposes(body, status) ==
    /\ {"summary", "transcript", "language", "method"} \cap DOMAIN body # {}
          => status = "completed"
    /\ "error" \in DOMAIN body => status = "failed"
    /\ status \in {"pending", "processing"} =>
          {"summary", "transcript"} \cap DOMAIN body = {}

\* C34 as stated: every job-status response has the summary, transcript,
\* language and method fields only for a completed job and the error field
\* only for a failed job.
C34_AnyResponse ==
    reply.endpoint = "job-status" =>
        C34_Exposes(reply.body,
                    IF "status" \in DOMAIN reply.body
                    THEN reply.body.status
                    ELSE NoValue)

\* C34: a job-status response for a job of the store has the summary,
\* transcript, language and method fields only when the job is completed and
\* the error field only when it is failed; for a pending or processing job it
\* has neither transcript nor summary.
C34_JobResponse ==
    (reply.endpoint = "job-status" /\ reply.code = 200) =>
        C34_Exposes(reply.body, reply.body.status)

\* a job-status response reports a job as processing whose transcript is
\* already stored
C34_Witness ==
    /\ reply.endpoint = "job-status" /\ reply.code = 200
    /\ reply.body.status = "processing"
    /\ HasJob(jobStore, reply.body.jobId)
    /\ jobStore[reply.body.jobId].status = "processing"
    /\ jobStore[reply.body.jobId].transcript # NoValue

\* the step of a processJob call that ends it, for a job still in the store
C33_Ends(run, withSummaryNull) ==
    /\ \A result \in SummaryResults :
          JobSummaryOn(run, result) =>
             /\ jobStore'[run.job].status = "completed"
             /\ jobStore'[run.job].transcript # NoValue
             /\ result.error # NoValue =>
                   /\ jobStore'[run.job].error = "Summary generation failed"
                   /\ withSummaryNull =>
                         jobStore'[run.job].summary = NoValue
    /\ \A result \in TranscriptResults :
          (JobTranscriptOn(run, result) /\ ~result.success) =>
             /\ jobStore'[run.job].status = "failed"
             /\ jobStore'[run.job].error \notin {NoValue, ""}

C33_Stored ==
    \A j \in JobIds :
       HasJob(jobStore', j) =>
          /\ jobStore'[j].status = "completed" =>
                jobStore'[j].transcript # NoValue
          /\ jobStore'[j].status = "failed" =>
                jobStore'[j].error \notin {NoValue, ""}

C33_Step ==
    /\ C33_Stored
    /\ \A run \in runs : HasJob(jobStore, run.job) => C33_Ends(run, TRUE)

\* C33: a processJob call whose transcript retrieval succeeded ends with the
\* job completed and the transcript stored; when the summary failed the
\* summary of the job is null and its error notes the failure; a call whose
\* transcript retrieval failed ends with the job failed and a non-empty
\* error. Every completed job has a transcript and every failed job an
\* error.
C33_TranscriptDecides == [][C33_Step]_vars

C33_StepButSummary ==
    /\ C33_Stored
    /\ \A run \in runs : HasJob(jobStore, run.job) => C33_Ends(run, FALSE)

\* the same without the null summary of a failed summary generation
C33_ButSummaryNull == [][C33_StepButSummary]_vars

\* the place of a status on the path pending -> processing -> completed |
\* failed
C31_Rank(status) ==
    IF status = "pending" THEN 0 ELSE IF status = "processing" THEN 1 ELSE 2

C31_Step ==
    \A j \in JobIds :
       (HasJob(jobStore, j) /\ HasJob(jobStore', j)) =>
          /\ C31_Rank(jobStore'[j].status) >= C31_Rank(jobStore[j].status)
          /\ jobStore[j].status \in {"completed", "failed"} =>
                jobStore'[j].status = jobStore[j].status

\* C31: in every step the status of a job stays or moves forward along
\* pending -> processing -> completed | failed, and a completed or failed
\* job keeps its status.
C31_StatusForward == [][C31_Step]_vars

\* the same for the steps of the first processJob call of each job, while no
\* second process-job request for the job has reached its handler
C31_SingleRun ==
    [][(\A run \in runs' : run.n = 1) => C31_Step]_vars

\* youtube.js, lines 1005-1010: the expiry timer fires when nothing is under
\* way for the job. The timer runs 30 minutes; the requests of a processJob
\* call carry timeouts of seconds.
ExpireIdle ==
    /\ \E jobId \in JobIds :
          /\ HasJob(jobStore, jobId)
          /\ net[jobId] = 0
          /\ \A run \in runs : run.job = jobId => run.pc = "done"
          /\ jobStore' = ExpireJob(jobStore, jobId)
    /\ UNCHANGED <<runs, net, reply, notApi>>

JobTimedNext ==
    \/ CreateJob
    \/ PostProcessJob
    \/ TriggerFails
    \/ ProcessJobRejected
    \/ ProcessJob
    \/ JobTitle
    \/ JobTranscript
    \/ JobSummary
    \/ ExpireIdle
    \/ JobStatus

\* every process-job request reaches its handler or fails, and getVideoTitle,
\* getVideoTranscript and generateSummary return
JobFairSpec ==
    /\ Init /\ [][JobTimedNext]_vars
    /\ WF_vars(ProcessJob \/ TriggerFails)
    /\ WF_vars(JobTitle)
    /\ WF_vars(JobTranscript)
    /\ WF_vars(JobSummary)

C32_Ended(j) ==
    HasJob(jobStore, j) /\ jobStore[j].status \in {"completed", "failed"}

\* C32: every job of the store is eventually completed or failed.
C32_EveryJobEnds ==
    \A j \in JobIds : HasJob(jobStore, j) ~> C32_Ended(j)

\* a job that has reached processing is eventually completed or failed
C32_ProcessingEnds ==
    \A j \in JobIds :
       (HasJob(jobStore, j) /\ jobStore[j].status = "processing") ~>
          C32_Ended(j)

\* ------------------------------------------------------------------------
\* generateSummary (src/utils/openai.js, lines 84-174)
\* ------------------------------------------------------------------------

\* line 69
MAX_RETRIES == 3

\* the transcripts handed to generateSummary: none, the empty string, white
\* space, and texts of 19, 20 and 21 characters, bare and padded
SummaryTranscripts ==
    {Null, <<>>, Rep(" ", 20)}
    \cup {Rep("a", n) : n \in 19..21}
    \cup {<<" ">> \o Rep("a", n) \o <<" ">> : n \in 18..20}

\* lines 91-93: the transcript is turned down
TooShort(transcript) ==
    transcript = Null \/ transcript = <<>> \/ TrimmedLength(transcript) < 20

\* lastError before the first failure (line 86)
NoError == [none |-> TRUE]

\* the error thrown at line 92
ShortError ==
    [message |-> "Transcript is too short or empty", status |-> 0,
     code |-> ""]

\* the error thrown at line 137
EmptyError ==
    [message |-> "OpenAI returned empty summary", status |-> 0, code |-> ""]

\* the errors the request is rejected with: status 0 and code "" stand for
\* an error without status and without code
RequestErrors ==
    { [message |-> "Rate limit reached", status |-> 429, code |-> ""],
      [message |-> "Internal server error", status |-> 500, code |-> ""],
      [message |-> "Service unavailable", status |-> 503, code |-> ""],
      [message |-> "Bad request", status |-> 400, code |-> ""],
      [message |-> "Incorrect API key", status |-> 401, code |-> ""],
      [message |-> "timeout exceeded", status |-> 0, code |-> "ECONNABORTED"],
      [message |-> "connect ETIMEDOUT", status |-> 0, code |-> "ETIMEDOUT"],
      [message |-> "read ECONNRESET", status |-> 0, code |-> "ECONNRESET"],
      [message |-> "", status |-> 0, code |-> ""] }

\* the answers of openai.chat.completions.create: a response with the
\* content of its first choice (NoValue: no first choice, or no content), or
\* an error
SummaryAnswers ==
    {[content |-> c] : c \in {"a summary", "", NoValue}}
    \cup {[error |-> e] : e \in RequestErrors}

\* every error is retried
shouldRetry_Always(error) == TRUE

\* lines 151-155
shouldRetry(error) ==
    \/ error.status = 429
    \/ error.status >= 500
    \/ error.code = "ECONNABORTED"
    \/ error.code = "ETIMEDOUT"

\* the result after the loop without the fallback text of line 172
FailedResult_NoFallback(lastError) ==
    [summary |-> NoValue,
     error |-> IF lastError # NoError THEN lastError.message ELSE NoValue]

\* lines 170-173: the result after the loop
FailedResult(lastError) ==
    [summary |-> NoValue,
     error |-> IF lastError # NoError /\ lastError.message # ""
               THEN lastError.message
               ELSE "Failed to generate summary after multiple attempts"]

\* lines 144-165: the catch block after the error was thrown
Caught(error) ==
    LET attempts == gs.attempts + 1
    IN  IF attempts >= MAX_RETRIES \/ ~shouldRetry(error)
        THEN [gs EXCEPT !.attempts = attempts, !.lastError = error,
                        !.pc = "done", !.result = FailedResult(error)]
        ELSE [gs EXCEPT !.attempts = attempts, !.lastError = error,
                        !.pc = "sleep"]

\* lines 88-123: one pass of the loop up to its await
Iterate(call) ==
    IF call.attempts >= MAX_RETRIES
    THEN [call EXCEPT !.pc = "done",
                      !.result = FailedResult(call.lastError)]
    ELSE IF TooShort(call.transcript)
    THEN [call EXCEPT !.attempts = 1, !.lastError = ShortError,
                      !.pc = "done", !.result = FailedResult(ShortError)]
    ELSE [call EXCEPT !.pc = "request", !.requests = @ + 1]

\* the variables generateSummary does not touch
notSummary ==
    <<locals, memo, returned, other, fn, arg, res, jobStore, runs, net,
      reply, client>>

\* lines 84-123: generateSummary is called (the previous call, if any, has
\* returned)
SummaryCall ==
    /\ gs.pc \in {"idle", "done"}
    /\ \E transcript \in SummaryTranscripts :
          gs' = Iterate([SummaryIdle EXCEPT !.transcript = transcript])
    /\ UNCHANGED notSummary

\* lines 123-165: the request has answered
SummaryAnswerOn(ans) ==
    /\ gs.pc = "request"
    /\ gs' = IF "error" \in DOMAIN ans
             THEN Caught(ans.error)
             ELSE IF ans.content = NoValue \/ ans.content = ""
             THEN Caught(EmptyError)
             ELSE [gs EXCEPT !.pc = "done",
                             !.result = [summary |-> ans.content,
                                         error |-> NoValue]]

SummaryAnswer ==
    /\ \E ans \in SummaryAnswers : SummaryAnswerOn(ans)
    /\ UNCHANGED notSummary

\* lines 162-164 and 88-123: the backoff delay has passed
SummaryWake ==
    /\ gs.pc = "sleep"
    /\ gs' = Iterate(gs)
    /\ UNCHANGED notSummary

SumNext ==
    \/ SummaryCall
    \/ SummaryAnswer
    \/ SummaryWake

SumSpec == Init /\ [][SumNext]_vars

\* every request answers and every backoff delay passes
SumFairSpec ==
    /\ SumSpec
    /\ WF_vars(SummaryAnswer)
    /\ WF_vars(SummaryWake)

\* ------------------------------------------------------------------------
\* Claims on generateSummary
\* ------------------------------------------------------------------------

C38_Result(result) ==
    \/ /\ result.summary \notin {NoValue, ""}
       /\ result.error = NoValue
    \/ /\ result.summary = NoValue
       /\ result.error \notin {NoValue, ""}

C38_Safe ==
    /\ gs.requests <= 3
    /\ gs.attempts <= 3
    /\ gs.pc \in {"idle", "request", "sleep", "done"}
    /\ gs.pc = "done" => C38_Result(gs.result)

\* C38: a generateSummary call sends at most 3 requests, a call under way
\* always returns, and what it returns is a non-empty summary with error
\* null or a null summary with a non-empty error.
C38_BoundedRetries ==
    /\ []C38_Safe
    /\ (gs.pc \in {"request", "sleep"}) ~> (gs.pc = "done")

\* a call returned an error after three requests
C38_Witness ==
    /\ gs.pc = "done" /\ gs.requests = 3
    /\ gs.result.summary = NoValue

C39_Retryable(ans) ==
    /\ "error" \in DOMAIN ans
    /\ \/ ans.error.status = 429
       \/ ans.error.status >= 500
       \/ ans.error.code \in {"ECONNABORTED", "ETIMEDOUT"}

C39_Failed(ans) ==
    "error" \in DOMAIN ans \/ ans.content \in {NoValue, ""}

C39_Step ==
    /\ \A ans \in SummaryAnswers :
          SummaryAnswerOn(ans) =>
             /\ gs'.pc = "sleep" => C39_Retryable(ans)
             /\ (C39_Failed(ans) /\ ~C39_Retryable(ans)) =>
                   /\ gs'.pc = "done"
                   /\ gs'.requests = gs.requests
                   /\ gs'.attempts = gs.attempts + 1
                   /\ gs'.result.summary = NoValue
                   /\ gs'.result.error # NoValue
    /\ (gs.pc = "sleep" /\ gs'.requests > gs.requests) =>
          C39_Retryable([error |-> gs.lastError])
    /\ (gs'.pc = "done" /\ TooShort(gs'.transcript)) =>
          /\ gs'.requests = 0
          /\ gs'.attempts = 1
          /\ gs'.result =
                [summary |-> NoValue,
                 error |-> "Transcript is too short or empty"]

\* C39: generateSummary sends a further request only after an error with
\* status 429, a status of 500 or more, or code ECONNABORTED or ETIMEDOUT;
\* after any other failure, an empty response included, it returns the
\* error without a further request, and for a transcript of fewer than 20
\* trimmed characters it returns after one attempt without any request.
C39_RetryOnlyTransient == [][C39_Step]_vars

\* a call returned after one request whose response was empty
C39_Witness ==
    /\ gs.pc = "done" /\ gs.requests = 1 /\ gs.attempts = 1
    /\ gs.lastError = EmptyError

\* ------------------------------------------------------------------------
\* The polling page (pages/index.js: src/unnamed/part_001, lines 544-662)
\* ------------------------------------------------------------------------

\* the id setInterval returns
INTERVAL == "interval"

\* clearInterval(id) on the page c
ClearInterval(c, id) ==
    IF id # NoValue /\ c.timer = id THEN [c EXCEPT !.timer = NoValue] ELSE c

\* the page renders with its current state; the clean-up of the effect of
\* the previous render runs when pollingInterval has changed (lines 656-662)
Commit(c) ==
    LET cleaned ==
            IF c.view.pollingInterval # c.pollingInterval
            THEN ClearInterval(c, c.view.pollingInterval)
            ELSE c
    IN  [cleaned EXCEPT !.view = [isLoading |-> c.isLoading,
                                  pollingInterval |-> c.pollingInterval]]

\* state updates made outside an event handler: the build renders them
\* before the handler goes on, or in a later task
Flushed(c, now) == IF now THEN Commit(c) ELSE c

\* the variables the page does not touch
notClient ==
    <<locals, memo, returned, other, fn, arg, res, jobStore, runs, net,
      reply, gs>>

\* lines 566-582: the form is submitted (the button is disabled while the
\* rendered isLoading is true); processUrl clears the interval its render
\* knows and sends the create-job request. The updates of an event handler
\* are rendered when it returns.
Submit ==
    /\ client.pc # "creating"
    /\ ~client.view.isLoading
    /\ client' =
          Commit([ClearInterval(client, client.view.pollingInterval)
                    EXCEPT !.pc = "creating", !.isLoading = TRUE,
                           !.error = NoValue, !.result = NoValue,
                           !.jobId = NoValue, !.pollingInterval = NoValue,
                           !.captured = client.view.pollingInterval])
    /\ UNCHANGED notClient

\* lines 582-613: create-job has answered. A success starts the interval
\* and stores its id in the state; a failure ends the loading. The render
\* that follows startPolling is part of the step: the interval fires a
\* second later at the earliest.
CreateAnsweredOn(ok, now) ==
    /\ client.pc = "creating"
    /\ client' =
          Flushed(IF ok
                  THEN [client EXCEPT !.pc = "polling", !.jobId = 1,
                                      !.timer = INTERVAL,
                                      !.pollingInterval = INTERVAL]
                  ELSE [client EXCEPT !.pc = "idle", !.isLoading = FALSE,
                                      !.error = "Failed to create job"],
                  ok \/ now)

CreateAnswered ==
    /\ \E ok \in BOOLEAN, now \in BOOLEAN : CreateAnsweredOn(ok, now)
    /\ UNCHANGED notClient

\* the updates of an earlier task are rendered
Render ==
    /\ client.view # [isLoading |-> client.isLoading,
                      pollingInterval |-> client.pollingInterval]
    /\ client' = Commit(client)
    /\ UNCHANGED notClient

\* lines 608-610 and 616-618: the interval fires and checkJobStatus sends a
\* job-status request
Tick ==
    /\ client.timer # NoValue
    /\ client.inflight < MaxInflight
    /\ client' = [client EXCEPT !.inflight = @ + 1]
    /\ UNCHANGED notClient

\* what a job-status request ends with: the status of a 200 response, a
\* response that is not ok, or a rejected fetch
PollAnswers ==
    {"pending", "processing", "completed", "failed", "not ok", "rejected"}

\* lines 618-652: a job-status request has ended. For a completed or failed
\* job checkJobStatus calls clearInterval with the pollingInterval of its
\* closure and sets pollingInterval to null and isLoading to false; an
\* error is only logged.
StatusAnsweredOn(ans, now) ==
    /\ client.inflight > 0
    /\ client' =
          IF ans \in {"completed", "failed"}
          THEN Flushed([ClearInterval(client, client.captured)
                          EXCEPT !.inflight = @ - 1,
                                 !.pollingInterval = NoValue,
                                 !.isLoading = FALSE,
                                 !.error = IF ans = "failed"
                                           THEN "Processing failed"
                                           ELSE @,
                                 !.result = IF ans = "completed"
                                            THEN "data"
                                            ELSE @], now)
          ELSE [client EXCEPT !.inflight = @ - 1]

StatusAnswered ==
    /\ \E ans \in PollAnswers, now \in BOOLEAN : StatusAnsweredOn(ans, now)
    /\ UNCHANGED notClient

PollNext ==
    \/ Submit
    \/ CreateAnswered
    \/ Render
    \/ Tick
    \/ StatusAnswered

PollSpec == Init /\ [][PollNext]_vars

\* ------------------------------------------------------------------------
\* Claim on the polling page
\* ------------------------------------------------------------------------

\* a completed or failed response has been handled since polling started
C37_Stopped(c) == c.pc = "polling" /\ c.pollingInterval = NoValue

\* the page has rendered its current state
C37_Rendered(c) ==
    c.view = [isLoading |-> c.isLoading,
              pollingInterval |-> c.pollingInterval]

C37_ErrorsKeepPolling ==
    \A ans \in {"not ok", "rejected"}, now \in BOOLEAN :
       StatusAnsweredOn(ans, now) =>
          /\ client'.timer = client.timer
          /\ client'.pollingInterval = client.pollingInterval

C37_Step ==
    /\ \A ans \in {"completed", "failed"}, now \in BOOLEAN :
          StatusAnsweredOn(ans, now) => client'.timer = NoValue
    /\ C37_Stopped(client) =>
          (C37_Stopped(client') => client'.inflight <= client.inflight)
    /\ C37_ErrorsKeepPolling

\* C37: the step that handles a completed or failed job-status response
\* leaves no interval running, no job-status request is started after it, and
\* a response that is not ok or a rejected request leaves the interval
\* running.
C37_StopsOnTerminal == [][C37_Step]_vars

C37_StepRendered ==
    /\ (C37_Stopped(client) /\ C37_Rendered(client)) =>
          /\ client.timer = NoValue
          /\ C37_Stopped(client') => client'.inflight <= client.inflight
    /\ C37_ErrorsKeepPolling

\* the same from the render that follows the response: once the page has
\* rendered the null pollingInterval no interval runs and no job-status
\* request is started
C37_StopsAfterRender == [][C37_StepRendered]_vars

=============================================================================
